---- MODULE Spec2Model ----
(***************************************************************************)
(* Model of the mac-state-monitor telemetry engine: the sensor classifier  *)
(* (monitor/temperature.rs), the network collector (monitor/network.rs),   *)
(* the disk collector (monitor/disk.rs), the poller (monitor/mod.rs), the  *)
(* history buffer (model.rs), the alert manager with its notification sink *)
(* (alert.rs) and the tick pipeline (app.rs, main.rs).                     *)
(*                                                                         *)
(* Representation choices:                                                 *)
(*  - a String is a sequence of one-character strings, so that             *)
(*    to_lowercase / contains / starts_with are computed, not assumed;     *)
(*  - an Option<T> is a sequence of length 0 (None) or 1 (Some);           *)
(*  - an f32/f64 value is an exact rational [num, den] in lowest terms     *)
(*    (floating-point rounding is not modelled);                           *)
(*  - an Instant is a number of milliseconds on the monotonic clock.       *)
(***************************************************************************)
EXTENDS Integers, Sequences, FiniteSets, TLC

(***************************************************************************)
(* Bounds of the model                                                     *)
(***************************************************************************)
\* capacities 0..MaxCap are handed to HistoryBuffer::new
MaxCap == 3
\* number of push calls explored on one history buffer
MaxPushes == 4
\* number of check calls explored on one alert manager
MaxChecks == 3
\* number of poll calls explored on one system monitor
MaxPolls == 3
\* number of bursts of traffic an interface counter can accumulate
MaxNetEvents == 2
\* number of volumes the disk list of the OS can hold
MaxDisks == 3
\* number of sensors the component list of the OS can hold
MaxSensors == 2
\* the sensors a machine lists at once in SpecClassifier
MaxListed == 4
\* the menu callbacks that fire in SpecMenu
MaxMenuEvents == 3

VARIABLES
    history,    \* model.rs HistoryBuffer
    stats,      \* the SystemStats snapshot most recently produced / consumed
    pushlog,    \* the snapshots handed to HistoryBuffer::push so far, in order
    clock,      \* Instant::now(), in milliseconds
    alert,      \* alert.rs AlertManager
    notified,   \* the (title, message) events the last check handed to notify
    fired,      \* per alert title, the times at which notify received it
    nchecks,    \* number of AlertManager::check calls so far
    sink_up,    \* whether osascript could be spawned during the last check
    spawned,    \* the events of the last check for which osascript was spawned
    check_panicked, \* the last check unwound instead of returning
    os,         \* what the OS reports: interface counters, CPU, memory, sensors
    monitor,    \* monitor/mod.rs SystemMonitor (last_poll, prev_net_rx, prev_net_tx)
    prev_stats, \* the snapshot of the cycle before the one that produced stats
    npolls,     \* number of SystemMonitor::poll calls so far
    net_decreased, \* an interface was reset or removed since the last poll
    polled_os,  \* what the OS reported when the last poll refreshed its sources
    phase,      \* main.rs: "main" until the first tick is done, then "loop"
    tick_pc,    \* app.rs: the call of App::tick to run next (0: not in tick)
    loop_now,   \* main.rs: now, read at the top of the event-loop closure
    last_tick,  \* main.rs: last_tick
    poll_interval, \* main.rs: poll_interval, in milliseconds
    config,     \* config.rs Config
    last_checked, \* the snapshot most recently handed to AlertManager::check
    runner,     \* ui/tray.rs RunnerAnimator (default_sets, custom sets, rotation)
    temp_title, \* ui/tray.rs: the temperature item of the menu bar
    MENU_ACTIONS,  \* ui/tray.rs MENU_ACTIONS: tag -> action id
    PENDING_EVENT, \* ui/tray.rs PENDING_EVENT: Option<String>
    triggered,  \* the tags menu_action_triggered was called with, in order
    handled     \* the actions the event loop took from the slot, in order

(***************************************************************************)
(* Numbers: exact rationals for f32 / f64                                  *)
(***************************************************************************)
RECURSIVE GCD(_, _)
GCD(a, b) == IF b = 0 THEN a ELSE GCD(b, a % b)

Abs(n) == IF n < 0 THEN -n ELSE n

\* n / d in lowest terms, d > 0
Rat(n, d) ==
    LET g == GCD(Abs(n), d)
    IN  [num |-> n \div g, den |-> d \div g]

RatGE(a, b) == a.num * b.den >= b.num * a.den

\* f32::max
RatMax(a, b) == IF RatGE(a, b) THEN a ELSE b

Min(a, b) == IF a <= b THEN a ELSE b

\* u64::saturating_sub
saturating_sub(a, b) == IF a >= b THEN a - b ELSE 0

(***************************************************************************)
(* Strings                                                                 *)
(***************************************************************************)
UpperChars == <<"A","B","C","D","E","F","G","H","I","J","K","L","M",
                "N","O","P","Q","R","S","T","U","V","W","X","Y","Z">>
LowerChars == <<"a","b","c","d","e","f","g","h","i","j","k","l","m",
                "n","o","p","q","r","s","t","u","v","w","x","y","z">>

lower_char(c) ==
    IF \E i \in 1..Len(UpperChars) : UpperChars[i] = c
    THEN LowerChars[CHOOSE i \in 1..Len(UpperChars) : UpperChars[i] = c]
    ELSE c

\* str::to_lowercase
to_lowercase(s) == [i \in 1..Len(s) |-> lower_char(s[i])]

\* str::contains(&str)
contains(s, pat) ==
    \E i \in 0..(Len(s) - Len(pat)) : SubSeq(s, i + 1, i + Len(pat)) = pat

\* str::starts_with(&str)
starts_with(s, pat) ==
    Len(s) >= Len(pat) /\ SubSeq(s, 1, Len(pat)) = pat

(***************************************************************************)
(* monitor/temperature.rs: the sensor classifier                           *)
(* A raw component is [label |-> String, temperature |-> Option<degrees>]. *)
(***************************************************************************)
S_nand == <<"n","a","n","d">>
S_ssd  == <<"s","s","d">>
S_disk == <<"d","i","s","k">>
S_pmu_tdie  == <<"p","m","u"," ","t","d","i","e">>
S_pmu2_tdie == <<"p","m","u","2"," ","t","d","i","e">>
S_pmu_tdev  == <<"p","m","u"," ","t","d","e","v">>
S_cpu == <<"c","p","u">>
S_gpu == <<"g","p","u">>
S_pmu == <<"p","m","u">>
L_CPU == <<"C","P","U">>
L_GPU == <<"G","P","U">>
L_SSD == <<"S","S","D">>

RECURSIVE SumSeq(_)
SumSeq(s) == IF s = <<>> THEN 0 ELSE Head(s) + SumSeq(Tail(s))

\* the accumulators declared at the top of collect_from
classify_init ==
    [cpu_temps |-> <<>>, gpu_temps |-> <<>>, ssd_temp |-> <<>>, other |-> <<>>]

\* the loop body without the validity window
classify_step_keeps_invalid(acc, comp) ==
    IF comp.temperature = <<>> THEN acc
    ELSE
    LET temp  == comp.temperature[1]
        label == comp.label
        lower == to_lowercase(label)
    IN  IF contains(lower, S_nand) \/ contains(lower, S_ssd) \/ contains(lower, S_disk)
             THEN [acc EXCEPT !.ssd_temp = <<temp>>]
        ELSE IF starts_with(lower, S_pmu_tdie)
             THEN [acc EXCEPT !.cpu_temps = Append(@, temp)]
        ELSE IF starts_with(lower, S_pmu2_tdie)
             THEN [acc EXCEPT !.gpu_temps = Append(@, temp)]
        ELSE IF starts_with(lower, S_pmu_tdev)
             THEN [acc EXCEPT !.cpu_temps = Append(@, temp)]
        ELSE IF contains(lower, S_cpu)
             THEN [acc EXCEPT !.cpu_temps = Append(@, temp)]
        ELSE IF contains(lower, S_gpu)
             THEN [acc EXCEPT !.gpu_temps = Append(@, temp)]
        ELSE IF ~contains(lower, S_pmu)
             THEN [acc EXCEPT !.other = Append(@, [label |-> label, temp_c |-> Rat(temp, 1)])]
        ELSE acc

\* the loop body keeping the first storage reading instead of the last
classify_step_first_ssd(acc, comp) ==
    IF comp.temperature = <<>> THEN acc
    ELSE
    LET temp  == comp.temperature[1]
        label == comp.label
        lower == to_lowercase(label)
    IN  IF temp <= 0 \/ temp > 150 THEN acc
        ELSE IF contains(lower, S_nand) \/ contains(lower, S_ssd) \/ contains(lower, S_disk)
             THEN [acc EXCEPT !.ssd_temp = IF @ = <<>> THEN <<temp>> ELSE @]
        ELSE IF starts_with(lower, S_pmu_tdie)
             THEN [acc EXCEPT !.cpu_temps = Append(@, temp)]
        ELSE IF starts_with(lower, S_pmu2_tdie)
             THEN [acc EXCEPT !.gpu_temps = Append(@, temp)]
        ELSE IF starts_with(lower, S_pmu_tdev)
             THEN [acc EXCEPT !.cpu_temps = Append(@, temp)]
        ELSE IF contains(lower, S_cpu)
             THEN [acc EXCEPT !.cpu_temps = Append(@, temp)]
        ELSE IF contains(lower, S_gpu)
             THEN [acc EXCEPT !.gpu_temps = Append(@, temp)]
        ELSE IF ~contains(lower, S_pmu)
             THEN [acc EXCEPT !.other = Append(@, [label |-> label, temp_c |-> Rat(temp, 1)])]
        ELSE acc

\* the loop body testing "cpu" and "gpu" ahead of the storage keywords
classify_step_cpu_first(acc, comp) ==
    IF comp.temperature = <<>> THEN acc
    ELSE
    LET temp  == comp.temperature[1]
        label == comp.label
        lower == to_lowercase(label)
    IN  IF temp <= 0 \/ temp > 150 THEN acc
        ELSE IF contains(lower, S_cpu)
             THEN [acc EXCEPT !.cpu_temps = Append(@, temp)]
        ELSE IF contains(lower, S_gpu)
             THEN [acc EXCEPT !.gpu_temps = Append(@, temp)]
        ELSE IF contains(lower, S_nand) \/ contains(lower, S_ssd) \/ contains(lower, S_disk)
             THEN [acc EXCEPT !.ssd_temp = <<temp>>]
        ELSE IF starts_with(lower, S_pmu_tdie)
             THEN [acc EXCEPT !.cpu_temps = Append(@, temp)]
        ELSE IF starts_with(lower, S_pmu2_tdie)
             THEN [acc EXCEPT !.gpu_temps = Append(@, temp)]
        ELSE IF starts_with(lower, S_pmu_tdev)
             THEN [acc EXCEPT !.cpu_temps = Append(@, temp)]
        ELSE IF ~contains(lower, S_pmu)
             THEN [acc EXCEPT !.other = Append(@, [label |-> label, temp_c |-> Rat(temp, 1)])]
        ELSE acc

\* one iteration of the loop over the components
classify_step(acc, comp) ==
    IF comp.temperature = <<>> THEN acc
    ELSE
    LET temp  == comp.temperature[1]
        label == comp.label
        lower == to_lowercase(label)
    IN  IF temp <= 0 \/ temp > 150 THEN acc
        ELSE IF contains(lower, S_nand) \/ contains(lower, S_ssd) \/ contains(lower, S_disk)
             THEN [acc EXCEPT !.ssd_temp = <<temp>>]
        ELSE IF starts_with(lower, S_pmu_tdie)
             THEN [acc EXCEPT !.cpu_temps = Append(@, temp)]
        ELSE IF starts_with(lower, S_pmu2_tdie)
             THEN [acc EXCEPT !.gpu_temps = Append(@, temp)]
        ELSE IF starts_with(lower, S_pmu_tdev)
             THEN [acc EXCEPT !.cpu_temps = Append(@, temp)]
        ELSE IF contains(lower, S_cpu)
             THEN [acc EXCEPT !.cpu_temps = Append(@, temp)]
        ELSE IF contains(lower, S_gpu)
             THEN [acc EXCEPT !.gpu_temps = Append(@, temp)]
        ELSE IF ~contains(lower, S_pmu)
             THEN [acc EXCEPT !.other = Append(@, [label |-> label, temp_c |-> Rat(temp, 1)])]
        ELSE acc

RECURSIVE classify_loop(_, _)
classify_loop(components, acc) ==
    IF components = <<>> THEN acc
    ELSE classify_loop(Tail(components), classify_step(acc, Head(components)))

\* the last element in place of the mean
average_last(temps) == Rat(temps[Len(temps)], 1)

\* the mean of a non-empty Vec<f32>
average(temps) == Rat(SumSeq(temps), Len(temps))

\* collect_from falling back to a powermetrics reading when nothing is left
collect_from_fallback(components) ==
    LET acc == classify_loop(components, classify_init)
        cpu == IF acc.cpu_temps # <<>>
               THEN <<[label |-> L_CPU, temp_c |-> average(acc.cpu_temps)]>> ELSE <<>>
        gpu == IF acc.gpu_temps # <<>>
               THEN <<[label |-> L_GPU, temp_c |-> average(acc.gpu_temps)]>> ELSE <<>>
        ssd == IF acc.ssd_temp # <<>>
               THEN <<[label |-> L_SSD, temp_c |-> Rat(acc.ssd_temp[1], 1)]>> ELSE <<>>
        readings == cpu \o gpu \o ssd \o acc.other
    IN  [readings |-> IF readings = <<>>
                      THEN <<[label |-> L_CPU, temp_c |-> Rat(50, 1)]>>
                      ELSE readings]

\* collect_from emitting the storage reading ahead of the die readings
collect_from_ssd_first(components) ==
    LET acc == classify_loop(components, classify_init)
        cpu == IF acc.cpu_temps # <<>>
               THEN <<[label |-> L_CPU, temp_c |-> average(acc.cpu_temps)]>> ELSE <<>>
        gpu == IF acc.gpu_temps # <<>>
               THEN <<[label |-> L_GPU, temp_c |-> average(acc.gpu_temps)]>> ELSE <<>>
        ssd == IF acc.ssd_temp # <<>>
               THEN <<[label |-> L_SSD, temp_c |-> Rat(acc.ssd_temp[1], 1)]>> ELSE <<>>
        readings == ssd \o cpu \o gpu \o acc.other
    IN  [readings |-> IF readings = <<>> THEN <<>> ELSE readings]

\* collect_from: the TemperatureStats (its readings) of one cycle
collect_from(components) ==
    LET acc == classify_loop(components, classify_init)
        cpu == IF acc.cpu_temps # <<>>
               THEN <<[label |-> L_CPU, temp_c |-> average(acc.cpu_temps)]>> ELSE <<>>
        gpu == IF acc.gpu_temps # <<>>
               THEN <<[label |-> L_GPU, temp_c |-> average(acc.gpu_temps)]>> ELSE <<>>
        ssd == IF acc.ssd_temp # <<>>
               THEN <<[label |-> L_SSD, temp_c |-> Rat(acc.ssd_temp[1], 1)]>> ELSE <<>>
        readings == cpu \o gpu \o ssd \o acc.other
    IN  [readings |-> IF readings = <<>> THEN <<>> ELSE readings]

(***************************************************************************)
(* model.rs: HistoryBuffer                                                 *)
(***************************************************************************)
\* VecDeque::pop_front (a no-op on an empty deque)
pop_front(buf) == IF buf = <<>> THEN buf ELSE Tail(buf)

\* the (ordered) interface names
Interfaces == {1, 2}

\* BTreeMap::new
EmptyMap == [l \in {} |-> <<>>]

HistoryBuffer_new(max_points) ==
    [temps      |-> EmptyMap,
     cpu_usage  |-> <<>>,
     mem_usage  |-> <<>>,
     net_down   |-> <<>>,
     net_up     |-> <<>>,
     max_points |-> max_points]

\* push_val_f32 that empties a full buffer instead of evicting its oldest point
push_val_f32_clear(buf, val, max) ==
    Append(IF Len(buf) >= max THEN <<>> ELSE buf, val)

push_val_f32(buf, val, max) ==
    Append(IF Len(buf) >= max THEN pop_front(buf) ELSE buf, val)

\* push_val_f64 that never evicts
push_val_f64_no_evict(buf, val, max) == Append(buf, val)

push_val_f64(buf, val, max) ==
    Append(IF Len(buf) >= max THEN pop_front(buf) ELSE buf, val)

\* temps is a BTreeMap<String, VecDeque<f32>>: a function on the labels seen
temps_get(temps, label) == IF label \in DOMAIN temps THEN temps[label] ELSE <<>>

\* the body of the loop over stats.temperature.readings
push_reading(temps, reading, max_points) ==
    LET buf  == temps_get(temps, reading.label)
        buf2 == Append(IF Len(buf) >= max_points THEN pop_front(buf) ELSE buf,
                       reading.temp_c)
    IN  [l \in (DOMAIN temps) \cup {reading.label} |->
            IF l = reading.label THEN buf2 ELSE temps[l]]

RECURSIVE push_readings(_, _, _)
push_readings(temps, readings, max_points) ==
    IF readings = <<>> THEN temps
    ELSE push_readings(push_reading(temps, Head(readings), max_points),
                       Tail(readings), max_points)

\* HistoryBuffer::push
push(h, st) ==
    LET down_kb == Rat(st.network.received_per_sec, 1024)
        up_kb   == Rat(st.network.transmitted_per_sec, 1024)
    IN  [temps      |-> push_readings(h.temps, st.temperature.readings, h.max_points),
         cpu_usage  |-> push_val_f32(h.cpu_usage, st.cpu.global_usage, h.max_points),
         mem_usage  |-> push_val_f32(h.mem_usage, st.memory.usage_percent, h.max_points),
         net_down   |-> push_val_f64(h.net_down, down_kb, h.max_points),
         net_up     |-> push_val_f64(h.net_up, up_kb, h.max_points),
         max_points |-> h.max_points]

(***************************************************************************)
(* monitor/cpu.rs, monitor/memory.rs and the snapshot (model.rs)           *)
(***************************************************************************)
\* cpu::collect: sys_cpus is the per-core usage, global the global usage
cpu_collect(global, sys_cpus) ==
    [global_usage   |-> global,
     per_core_usage |-> sys_cpus,
     core_count     |-> Len(sys_cpus)]

\* memory::collect
memory_collect(total, used, available) ==
    [total_bytes     |-> total,
     used_bytes      |-> used,
     available_bytes |-> available,
     usage_percent   |-> IF total > 0 THEN Rat(used * 100, total) ELSE Rat(0, 1)]

\* impl Default for SystemStats
SystemStats_default ==
    [cpu         |-> [global_usage |-> Rat(0, 1), per_core_usage |-> <<>>, core_count |-> 0],
     memory      |-> [total_bytes |-> 0, used_bytes |-> 0, available_bytes |-> 0,
                      usage_percent |-> Rat(0, 1)],
     disks       |-> <<>>,
     network     |-> [total_received_bytes |-> 0, total_transmitted_bytes |-> 0,
                      received_per_sec |-> 0, transmitted_per_sec |-> 0],
     temperature |-> [readings |-> <<>>],
     timestamp   |-> 0]

(***************************************************************************)
(* monitor/disk.rs: the disk collector                                     *)
(* A volume of the OS is [name, mount_point, total_space, available_space].*)
(***************************************************************************)
S_system_volumes ==
    <<"/","S","y","s","t","e","m","/","V","o","l","u","m","e","s">>

\* the filter closure with the name inserted into seen_names before the
\* size and the mount point are looked at
RECURSIVE disk_filter_eager_seen(_, _)
disk_filter_eager_seen(disks, seen_names) ==
    IF disks = <<>> THEN <<>>
    ELSE LET d    == Head(disks)
             keep == /\ d.name \notin seen_names
                     /\ d.total_space > 0
                     /\ ~starts_with(d.mount_point, S_system_volumes)
         IN  (IF keep THEN <<d>> ELSE <<>>)
                \o disk_filter_eager_seen(Tail(disks), seen_names \cup {d.name})

\* the filter closure over the volumes in provider order: && short-circuits,
\* so seen_names.insert(name) runs only for a volume that passed the size
\* and mount-point tests
RECURSIVE disk_filter(_, _)
disk_filter(disks, seen_names) ==
    IF disks = <<>> THEN <<>>
    ELSE LET d        == Head(disks)
             eligible == /\ d.total_space > 0
                         /\ ~starts_with(d.mount_point, S_system_volumes)
             keep     == eligible /\ d.name \notin seen_names
         IN  (IF keep THEN <<d>> ELSE <<>>)
                \o disk_filter(Tail(disks),
                               IF eligible THEN seen_names \cup {d.name} ELSE seen_names)

\* the map closure with a plain subtraction in place of saturating_sub
disk_stats_signed(d) ==
    LET total     == d.total_space
        available == d.available_space
        used      == total - available
    IN  [name            |-> d.name,
         mount_point     |-> d.mount_point,
         total_bytes     |-> total,
         available_bytes |-> available,
         usage_percent   |-> IF total > 0 THEN Rat(used * 100, total) ELSE Rat(0, 1)]

\* the map closure: the DiskStats of one volume
disk_stats(d) ==
    LET total     == d.total_space
        available == d.available_space
        used      == saturating_sub(total, available)
    IN  [name            |-> d.name,
         mount_point     |-> d.mount_point,
         total_bytes     |-> total,
         available_bytes |-> available,
         usage_percent   |-> IF total > 0 THEN Rat(used * 100, total) ELSE Rat(0, 1)]

\* disk::collect
disk_collect(disks) ==
    LET kept == disk_filter(disks, {})
    IN  [i \in 1..Len(kept) |-> disk_stats(kept[i])]

(***************************************************************************)
(* monitor/network.rs and monitor/mod.rs: the network collector, the poller*)
(* The OS state is [networks, global_cpu, cpus, mem_total, mem_used,       *)
(* mem_available, components]; networks maps each listed interface to its  *)
(* cumulative counters [rx, tx].                                           *)
(***************************************************************************)
\* Instant::duration_since (saturating), in milliseconds
duration_since(now, earlier) == IF now >= earlier THEN now - earlier ELSE 0

RECURSIVE SumOver(_, _, _)
\* the sum of networks[i][field] over the interfaces i of S
SumOver(S, networks, field) ==
    IF S = {} THEN 0
    ELSE LET i == CHOOSE x \in S : TRUE
         IN  networks[i][field] + SumOver(S \ {i}, networks, field)

\* network::total_bytes
total_bytes(networks) ==
    [rx |-> SumOver(DOMAIN networks, networks, "rx"),
     tx |-> SumOver(DOMAIN networks, networks, "tx")]

\* (delta as f64 / elapsed_secs) as u64, the elapsed time in milliseconds
per_sec(delta, elapsed_ms) == (delta * 1000) \div elapsed_ms

\* network::collect with a signed difference in place of saturating_sub
collect_signed_delta(networks, prev_rx, prev_tx, elapsed_ms) ==
    LET t == total_bytes(networks)
    IN  [stats |-> [total_received_bytes    |-> t.rx,
                    total_transmitted_bytes |-> t.tx,
                    received_per_sec    |-> per_sec(t.rx - prev_rx, elapsed_ms),
                    transmitted_per_sec |-> per_sec(t.tx - prev_tx, elapsed_ms)],
         new_rx |-> t.rx,
         new_tx |-> t.tx]

\* network::collect that reports only the first listed interface
collect_first_interface(networks, prev_rx, prev_tx, elapsed_ms) ==
    LET S == DOMAIN networks
        f == IF S = {} THEN {} ELSE {CHOOSE x \in S : \A y \in S : x <= y}
        t == [rx |-> SumOver(f, networks, "rx"), tx |-> SumOver(f, networks, "tx")]
    IN  [stats |-> [total_received_bytes    |-> t.rx,
                    total_transmitted_bytes |-> t.tx,
                    received_per_sec    |-> per_sec(saturating_sub(t.rx, prev_rx), elapsed_ms),
                    transmitted_per_sec |-> per_sec(saturating_sub(t.tx, prev_tx), elapsed_ms)],
         new_rx |-> t.rx,
         new_tx |-> t.tx]

\* network::collect
collect(networks, prev_rx, prev_tx, elapsed_ms) ==
    LET t        == total_bytes(networks)
        delta_rx == saturating_sub(t.rx, prev_rx)
        delta_tx == saturating_sub(t.tx, prev_tx)
    IN  [stats |-> [total_received_bytes    |-> t.rx,
                    total_transmitted_bytes |-> t.tx,
                    received_per_sec    |-> per_sec(delta_rx, elapsed_ms),
                    transmitted_per_sec |-> per_sec(delta_tx, elapsed_ms)],
         new_rx |-> t.rx,
         new_tx |-> t.tx]

\* SystemMonitor::new at Instant now
SystemMonitor_new(o, now) ==
    LET t == total_bytes(o.networks)
    IN  [last_poll |-> now, prev_net_rx |-> t.rx, prev_net_tx |-> t.tx]

\* the elapsed time without the 0.1 s floor
elapsed_unfloored(now, last_poll) == duration_since(now, last_poll)

\* now.duration_since(self.last_poll).as_secs_f64().max(0.1), in milliseconds
elapsed_floor(now, last_poll) ==
    LET d == duration_since(now, last_poll)
    IN  IF d >= 100 THEN d ELSE 100

\* poll that does not store the new cumulative counters
poll_keeps_prev(m, o, now) ==
    LET elapsed == elapsed_floor(now, m.last_poll)
        net     == collect(o.networks, m.prev_net_rx, m.prev_net_tx, elapsed)
    IN  [monitor |-> [last_poll   |-> now,
                      prev_net_rx |-> m.prev_net_rx,
                      prev_net_tx |-> m.prev_net_tx],
         stats |-> [cpu         |-> cpu_collect(o.global_cpu, o.cpus),
                    memory      |-> memory_collect(o.mem_total, o.mem_used, o.mem_available),
                    disks       |-> disk_collect(o.disks),
                    network     |-> net.stats,
                    temperature |-> collect_from(o.components),
                    timestamp   |-> now]]

\* SystemMonitor::poll at Instant now, the OS sources refreshed to o:
\* the monitor afterwards and the snapshot
poll(m, o, now) ==
    LET elapsed == elapsed_floor(now, m.last_poll)
        net     == collect(o.networks, m.prev_net_rx, m.prev_net_tx, elapsed)
    IN  [monitor |-> [last_poll   |-> now,
                      prev_net_rx |-> net.new_rx,
                      prev_net_tx |-> net.new_tx],
         stats |-> [cpu         |-> cpu_collect(o.global_cpu, o.cpus),
                    memory      |-> memory_collect(o.mem_total, o.mem_used, o.mem_available),
                    disks       |-> disk_collect(o.disks),
                    network     |-> net.stats,
                    temperature |-> collect_from(o.components),
                    timestamp   |-> now]]

(***************************************************************************)
(* alert.rs: AlertManager                                                  *)
(***************************************************************************)
COOLDOWN_SECS == 60

T_CPU  == "CPU Usage High"
T_MEM  == "Memory Usage High"
T_TEMP == "Temperature High"
Titles == {T_CPU, T_MEM, T_TEMP}

AlertManager_new ==
    [cpu_threshold   |-> Rat(90, 1),
     mem_threshold   |-> Rat(90, 1),
     temp_threshold  |-> Rat(95, 1),
     last_cpu_alert  |-> <<>>,
     last_mem_alert  |-> <<>>,
     last_temp_alert |-> <<>>]

\* Duration::as_secs: whole seconds, the fraction dropped
as_secs(d) == d \div 1000

\* can_alert with > for >=
can_alert_strict(last, now) ==
    IF last = <<>> THEN TRUE
    ELSE as_secs(duration_since(now, last[1])) > COOLDOWN_SECS

\* can_alert comparing milliseconds with the cooldown in seconds
can_alert_millis(last, now) ==
    IF last = <<>> THEN TRUE
    ELSE duration_since(now, last[1]) >= COOLDOWN_SECS

\* can_alert that allows the first alert of a metric only
can_alert_first_only(last, now) == last = <<>>

can_alert(last, now) ==
    IF last = <<>> THEN TRUE
    ELSE as_secs(duration_since(now, last[1])) >= COOLDOWN_SECS

\* format!("{:.0}", v): v rounded to an integer, ties to even
fmt0(v) ==
    LET fl  == v.num \div v.den
        rem == v.num % v.den
    IN  IF 2 * rem > v.den THEN fl + 1
        ELSE IF 2 * rem < v.den THEN fl
        ELSE IF fl % 2 = 0 THEN fl ELSE fl + 1

\* the event notify(title, message) hands to osascript; the message is
\* kept as its prefix and the formatted number
Event(title, prefix, v) == [title |-> title, message |-> <<prefix, fmt0(v)>>]

\* readings.iter().map(|r| r.temp_c).fold(0.0, f32::max)
RECURSIVE fold_max(_, _)
fold_max(readings, acc) ==
    IF readings = <<>> THEN acc
    ELSE fold_max(Tail(readings), RatMax(acc, Head(readings).temp_c))

\* check with the memory alert debounced on the CPU alert's timestamp
check_shared_cooldown(a, st, now) ==
    LET cpu_fires == /\ RatGE(st.cpu.global_usage, a.cpu_threshold)
                     /\ can_alert(a.last_cpu_alert, now)
        mem_fires == /\ RatGE(st.memory.usage_percent, a.mem_threshold)
                     /\ can_alert(IF cpu_fires THEN <<now>> ELSE a.last_cpu_alert, now)
        max_temp  == fold_max(st.temperature.readings, Rat(0, 1))
        temp_fires == /\ RatGE(max_temp, a.temp_threshold)
                      /\ can_alert(a.last_temp_alert, now)
    IN  [alert |->
            [a EXCEPT !.last_cpu_alert  = IF cpu_fires THEN <<now>> ELSE @,
                      !.last_mem_alert  = IF mem_fires THEN <<now>> ELSE @,
                      !.last_temp_alert = IF temp_fires THEN <<now>> ELSE @],
         events |->
            (IF cpu_fires THEN <<Event(T_CPU, "CPU at", st.cpu.global_usage)>> ELSE <<>>)
            \o (IF mem_fires
                THEN <<Event(T_MEM, "Memory at", st.memory.usage_percent)>> ELSE <<>>)
            \o (IF temp_fires
                THEN <<Event(T_TEMP, "Temperature at", max_temp)>> ELSE <<>>)]

\* check that forgets a metric's last alert when it sees the metric under
\* its threshold
check_resets_below(a, st, now) ==
    LET cpu_high  == RatGE(st.cpu.global_usage, a.cpu_threshold)
        mem_high  == RatGE(st.memory.usage_percent, a.mem_threshold)
        max_temp  == fold_max(st.temperature.readings, Rat(0, 1))
        temp_high == RatGE(max_temp, a.temp_threshold)
        cpu_fires == cpu_high /\ can_alert(a.last_cpu_alert, now)
        mem_fires == mem_high /\ can_alert(a.last_mem_alert, now)
        temp_fires == temp_high /\ can_alert(a.last_temp_alert, now)
    IN  [alert |->
            [a EXCEPT !.last_cpu_alert  = IF cpu_fires THEN <<now>>
                                          ELSE IF cpu_high THEN @ ELSE <<>>,
                      !.last_mem_alert  = IF mem_fires THEN <<now>>
                                          ELSE IF mem_high THEN @ ELSE <<>>,
                      !.last_temp_alert = IF temp_fires THEN <<now>>
                                          ELSE IF temp_high THEN @ ELSE <<>>],
         events |->
            (IF cpu_fires THEN <<Event(T_CPU, "CPU at", st.cpu.global_usage)>> ELSE <<>>)
            \o (IF mem_fires
                THEN <<Event(T_MEM, "Memory at", st.memory.usage_percent)>> ELSE <<>>)
            \o (IF temp_fires
                THEN <<Event(T_TEMP, "Temperature at", max_temp)>> ELSE <<>>)]

\* AlertManager::check at Instant now: the manager afterwards and the
\* events handed to notify, in order
check(a, st, now) ==
    LET cpu_fires == /\ RatGE(st.cpu.global_usage, a.cpu_threshold)
                     /\ can_alert(a.last_cpu_alert, now)
        mem_fires == /\ RatGE(st.memory.usage_percent, a.mem_threshold)
                     /\ can_alert(a.last_mem_alert, now)
        max_temp  == fold_max(st.temperature.readings, Rat(0, 1))
        temp_fires == /\ RatGE(max_temp, a.temp_threshold)
                      /\ can_alert(a.last_temp_alert, now)
    IN  [alert |->
            [a EXCEPT !.last_cpu_alert  = IF cpu_fires THEN <<now>> ELSE @,
                      !.last_mem_alert  = IF mem_fires THEN <<now>> ELSE @,
                      !.last_temp_alert = IF temp_fires THEN <<now>> ELSE @],
         events |->
            (IF cpu_fires THEN <<Event(T_CPU, "CPU at", st.cpu.global_usage)>> ELSE <<>>)
            \o (IF mem_fires
                THEN <<Event(T_MEM, "Memory at", st.memory.usage_percent)>> ELSE <<>>)
            \o (IF temp_fires
                THEN <<Event(T_TEMP, "Temperature at", max_temp)>> ELSE <<>>)]

\* notify whose spawn result is unwrapped instead of dropped
notify_unwrap(ev, up) ==
    [spawned |-> IF up THEN <<ev>> ELSE <<>>, panicked |-> ~up]

\* notify: let _ = Command::new("osascript")...spawn(); up tells whether the
\* process can be spawned, and the Result is dropped
notify(ev, up) ==
    [spawned |-> IF up THEN <<ev>> ELSE <<>>, panicked |-> FALSE]

\* the calls of notify a check makes, in order, up to the first that panics:
\* the events spawned, the number of calls made, whether the last panicked
RECURSIVE notify_all(_, _)
notify_all(events, up) ==
    IF events = <<>> THEN [spawned |-> <<>>, handed |-> 0, panicked |-> FALSE]
    ELSE LET n == notify(Head(events), up)
         IN  IF n.panicked
             THEN [spawned |-> n.spawned, handed |-> 1, panicked |-> TRUE]
             ELSE LET r == notify_all(Tail(events), up)
                  IN  [spawned  |-> n.spawned \o r.spawned,
                       handed   |-> 1 + r.handed,
                       panicked |-> r.panicked]

\* AlertManager::check together with its calls of notify: a panic in notify
\* unwinds out of check before the timestamp of that alert is recorded and
\* before the remaining metrics are evaluated
check_notifying(a, st, now, up) ==
    LET r == check(a, st, now)
        d == notify_all(r.events, up)
        done == {r.events[i].title : i \in 1..(d.handed - 1)}
    IN  IF ~d.panicked
        THEN [alert |-> r.alert, events |-> r.events,
              spawned |-> d.spawned, panicked |-> FALSE]
        ELSE [alert |->
                [a EXCEPT !.last_cpu_alert  = IF T_CPU \in done THEN <<now>> ELSE @,
                          !.last_mem_alert  = IF T_MEM \in done THEN <<now>> ELSE @,
                          !.last_temp_alert = IF T_TEMP \in done THEN <<now>> ELSE @],
              events |-> SubSeq(r.events, 1, d.handed),
              spawned |-> d.spawned, panicked |-> TRUE]

(***************************************************************************)
(* model.rs: TemperatureStats::find_temp; ui/tray.rs: the temperature      *)
(* title, the runner rotation and the menu-action slot                     *)
(***************************************************************************)
\* find_temp comparing the labels with the fragment as it is written
find_temp_case_sensitive(readings, label_fragment) ==
    LET hits == SelectSeq(readings, LAMBDA r : contains(r.label, label_fragment))
    IN  IF hits = <<>> THEN <<>> ELSE <<hits[1].temp_c>>

\* TemperatureStats::find_temp: Option<f32>
find_temp(readings, label_fragment) ==
    LET frag == to_lowercase(label_fragment)
        hits == SelectSeq(readings, LAMBDA r : contains(to_lowercase(r.label), frag))
    IN  IF hits = <<>> THEN <<>> ELSE <<hits[1].temp_c>>

\* the temperature item of the menu bar as TrayManager::update sets it: the
\* text format!("{:.0}C", t) or "--C", and the level find_temp(..).unwrap_or(0.0)
temp_module_title(st, cfg) ==
    LET t == find_temp(st.temperature.readings, cfg.menubar_temp_component)
    IN  [text  |-> IF t = <<>> THEN <<"--C">> ELSE <<fmt0(t[1]), "C">>,
         level |-> IF t = <<>> THEN Rat(0, 1) ELSE t[1]]

\* a runner id "<ns>:<name>", kept as its two parts
RunnerId(ns, name) == [ns |-> ns, name |-> name]

R_cat      == RunnerId("runcat", "cat")
R_cat_b    == RunnerId("runcat", "cat-b")
R_dog      == RunnerId("runcat", "dog")
R_fallback == RunnerId("fallback", "runner")

\* the elements of a sequence
Elems(s) == {s[i] : i \in 1..Len(s)}

\* RunnerAnimator::new over the sets discover_runcat_sets found
RunnerAnimator_new(default_sets) ==
    [default_sets         |-> default_sets,
     custom_sets_snapshot |-> <<>>,
     rotation_ids         |-> <<R_cat>>]

\* RunnerAnimator::runner_id_exists
runner_id_exists(rn, runner_id) ==
    IF runner_id = R_fallback THEN TRUE
    ELSE IF runner_id \in Elems(rn.default_sets) THEN TRUE
    ELSE IF runner_id.ns = "custom" THEN runner_id.name \in Elems(rn.custom_sets_snapshot)
    ELSE FALSE

\* RunnerAnimator::menu_options: the ids of the default sets, then of the
\* custom sets
menu_options(rn) ==
    rn.default_sets
        \o [i \in 1..Len(rn.custom_sets_snapshot) |->
               RunnerId("custom", rn.custom_sets_snapshot[i])]

\* RunnerAnimator::sync_config: the snapshot of the custom sets and the
\* rotation the animator plays (the configuration is only read)
sync_config(rn, cfg) ==
    LET rn1       == [rn EXCEPT !.custom_sets_snapshot = cfg.custom_runner_sets]
        preferred == IF runner_id_exists(rn1, cfg.runner_id) THEN cfg.runner_id
                     ELSE IF rn1.default_sets # <<>> THEN rn1.default_sets[1]
                     ELSE R_fallback
        kept      == SelectSeq(cfg.runner_rotation_ids,
                               LAMBDA id : runner_id_exists(rn1, id))
        some      == IF kept = <<>> THEN <<preferred>> ELSE kept
        rotation  == IF preferred \in Elems(some) THEN some ELSE <<preferred>> \o some
    IN  [rn1 EXCEPT !.rotation_ids = rotation]

\* Vec::remove at the first position of id
remove_first(ids, id) ==
    LET idx == CHOOSE i \in 1..Len(ids) : ids[i] = id /\ \A j \in 1..(i - 1) : ids[j] # id
    IN  SubSeq(ids, 1, idx - 1) \o SubSeq(ids, idx + 1, Len(ids))

\* ids.first().cloned().unwrap_or_else(|| "runcat:cat")
first_or_cat(ids) == IF ids = <<>> THEN R_cat ELSE ids[1]

\* TrayManager::toggle_runner_in_rotation: the configuration and the
\* animator afterwards, and the bool it returns
toggle_runner_in_rotation(cfg, rn, runner_id) ==
    IF ~runner_id_exists(rn, runner_id)
    THEN [config |-> cfg, runner |-> rn, changed |-> FALSE]
    ELSE IF runner_id \in Elems(cfg.runner_rotation_ids)
    THEN IF Len(cfg.runner_rotation_ids) = 1
         THEN [config |-> cfg, runner |-> rn, changed |-> FALSE]
         ELSE LET rest == remove_first(cfg.runner_rotation_ids, runner_id)
                  cfg2 == [cfg EXCEPT !.runner_rotation_ids = rest,
                                      !.runner_id = IF cfg.runner_id = runner_id
                                                    THEN first_or_cat(rest) ELSE @]
              IN  [config |-> cfg2, runner |-> sync_config(rn, cfg2), changed |-> TRUE]
    ELSE LET cfg2 == [cfg EXCEPT !.runner_rotation_ids = Append(@, runner_id)]
         IN  [config |-> cfg2, runner |-> sync_config(rn, cfg2), changed |-> TRUE]

\* TrayManager::select_all_runners
select_all_runners(cfg, rn) ==
    LET all_ids == menu_options(rn)
        cfg2    == [cfg EXCEPT !.runner_rotation_ids = all_ids,
                               !.runner_id = IF cfg.runner_id \in Elems(all_ids)
                                             THEN @ ELSE first_or_cat(all_ids)]
    IN  [config |-> cfg2, runner |-> sync_config(rn, cfg2)]

\* the category table of select_runner_category, cut down to the runners
\* the model knows
RunnerCategories ==
    [Cats |-> <<R_cat, R_cat_b>>, Dogs |-> <<R_dog>>]

RECURSIVE push_missing(_, _)
\* for id in ids { if !rotation.contains(id) { rotation.push(id) } }
push_missing(rotation, ids) ==
    IF ids = <<>> THEN rotation
    ELSE push_missing(IF Head(ids) \in Elems(rotation) THEN rotation
                      ELSE Append(rotation, Head(ids)),
                      Tail(ids))

\* TrayManager::select_runner_category
select_runner_category(cfg, rn, category) ==
    IF category \notin DOMAIN RunnerCategories
    THEN [config |-> cfg, runner |-> rn]
    ELSE
    LET cat_ids == SelectSeq(RunnerCategories[category],
                             LAMBDA id : id \in Elems(menu_options(rn)))
        all_in_rotation == Elems(cat_ids) \subseteq Elems(cfg.runner_rotation_ids)
        retained == SelectSeq(cfg.runner_rotation_ids,
                              LAMBDA id : id \notin Elems(cat_ids))
        rotation == IF all_in_rotation
                    THEN IF retained = <<>> THEN <<R_cat>> ELSE retained
                    ELSE push_missing(cfg.runner_rotation_ids, cat_ids)
        cfg2 == [cfg EXCEPT !.runner_rotation_ids = rotation,
                            !.runner_id = first_or_cat(rotation)]
    IN  [config |-> cfg2, runner |-> sync_config(rn, cfg2)]

\* a menu action id, kept as the prefix main matches and the rest it parses
ActionId(prefix, rest) == [prefix |-> prefix, rest |-> rest]

\* the entries of MENU_ACTIONS the model follows, under the tags the menu
\* builders give them: 101 and 102 are the first two refresh intervals, 105
\* is "All" of the runner menu, 401..403 are the temperature choices
MenuBuilt ==
    (101 :> ActionId("interval_", 1)) @@ (102 :> ActionId("interval_", 2))
    @@ (105 :> ActionId("runner_all", <<>>))
    @@ (401 :> ActionId("temp_", L_CPU)) @@ (402 :> ActionId("temp_", L_GPU))
    @@ (403 :> ActionId("temp_", L_SSD))

\* TrayManager::update: the animator synced with the configuration, the
\* temperature title, and MENU_ACTIONS once the menus are built
update(rn, st, cfg) ==
    [runner     |-> sync_config(rn, cfg),
     temp_title |-> temp_module_title(st, cfg),
     actions    |-> MenuBuilt]

\* menu_action_triggered that keeps an action already waiting in the slot
menu_action_triggered_keeps_first(actions, pending, sender) ==
    IF sender = <<>> THEN pending
    ELSE IF sender[1] \in DOMAIN actions /\ pending = <<>>
         THEN <<actions[sender[1]]>>
         ELSE pending

\* menu_action_triggered: the slot afterwards; sender is <<>> for a null
\* sender and <<tag>> for a menu item with that tag
menu_action_triggered(actions, pending, sender) ==
    IF sender = <<>> THEN pending
    ELSE IF sender[1] \in DOMAIN actions
         THEN <<actions[sender[1]]>>
         ELSE pending

\* take_pending_event: Option::take
take_pending_event(pending) ==
    [taken |-> pending, pending |-> <<>>]

(***************************************************************************)
(* Sensor sets and snapshots used as inputs                                *)
(***************************************************************************)
Sensor(label, t) == [label |-> label, temperature |-> <<t>>]

N_PMU_tdie1 == <<"P","M","U"," ","t","d","i","e","1">>
N_PMU_tdie2 == <<"P","M","U"," ","t","d","i","e","2">>
N_GPU_Die   == <<"G","P","U"," ","D","i","e">>
N_Battery   == <<"B","a","t","t","e","r","y">>

\* what Components can hold in one cycle: nothing; one CPU die sensor at
\* 10, 20, 30 or 40 degrees (the last with a GPU sensor); two battery
\* sensors that carry the same label
HistSensorCases ==
    << <<>>,
       <<Sensor(N_PMU_tdie1, 10)>>,
       <<Sensor(N_PMU_tdie1, 20)>>,
       <<Sensor(N_PMU_tdie1, 25), Sensor(N_PMU_tdie2, 35)>>,
       <<Sensor(N_PMU_tdie1, 40), Sensor(N_GPU_Die, 55)>>,
       <<Sensor(N_Battery, 30), Sensor(N_Battery, 31)>> >>

\* the snapshot of a cycle with sensor case i: CPU load, memory use and
\* network rates alternate between two levels
HistSnapshot(i) ==
    LET k == 1 + (i % 2)
    IN  [cpu         |-> cpu_collect(Rat(10 * k, 1), <<Rat(10 * k, 1)>>),
         memory      |-> memory_collect(8, 3 * k, 8 - 3 * k),
         disks       |-> <<>>,
         network     |-> [total_received_bytes |-> 4096 * i,
                          total_transmitted_bytes |-> 1024 * i,
                          received_per_sec |-> 1536 * k,
                          transmitted_per_sec |-> 512 * k],
         temperature |-> collect_from(HistSensorCases[i]),
         timestamp   |-> 0]

HistSnapshots == {HistSnapshot(i) : i \in 1..Len(HistSensorCases)}

(***************************************************************************)
(* SpecHistory: a HistoryBuffer of any capacity 0..MaxCap under pushes     *)
(***************************************************************************)
histVars  == <<history, pushlog>>
alertVars == <<clock, alert, notified, fired, nchecks, sink_up, spawned, check_panicked>>
monVars   == <<os, monitor, prev_stats, npolls, net_decreased, polled_os>>
appVars   == <<phase, tick_pc, loop_now, last_tick, poll_interval, config>>
uiVars    == <<runner, temp_title, MENU_ACTIONS, PENDING_EVENT, triggered, handled>>
vars == <<history, stats, pushlog, clock, alert, notified, fired, nchecks,
          sink_up, spawned, check_panicked,
          os, monitor, prev_stats, npolls, net_decreased, polled_os,
          phase, tick_pc, loop_now, last_tick, poll_interval, config, last_checked,
          runner, temp_title, MENU_ACTIONS, PENDING_EVENT, triggered, handled>>

InitAlertVars ==
    /\ clock = 0
    /\ alert = AlertManager_new
    /\ notified = <<>>
    /\ fired = [t \in Titles |-> <<>>]
    /\ nchecks = 0
    /\ sink_up = TRUE
    /\ spawned = <<>>
    /\ check_panicked = FALSE
    /\ last_checked = SystemStats_default

\* Config::default
Config_default ==
    [poll_interval_secs     |-> 1,
     menubar_temp_component |-> L_CPU,
     runner_id              |-> R_cat,
     runner_rotation_ids    |-> <<R_cat>>,
     custom_runner_sets     |-> <<>>]

\* the runner sets discover_runcat_sets finds on a machine with its frames
DiscoveredSets == <<R_cat, R_cat_b, R_dog>>

\* the tray before its first update: no menu built, nothing pending
InitUiVars ==
    /\ runner = RunnerAnimator_new(DiscoveredSets)
    /\ temp_title = [text |-> <<>>, level |-> Rat(0, 1)]
    /\ MENU_ACTIONS = <<>>
    /\ PENDING_EVENT = <<>>
    /\ triggered = <<>>
    /\ handled = <<>>

\* the application before its first tick
InitAppVars ==
    /\ phase = "main"
    /\ tick_pc = 1
    /\ loop_now = 0
    /\ last_tick = 0
    /\ poll_interval = 0
    /\ config = Config_default
    /\ InitUiVars

\* a volume as Disks lists it
Volume(name, mount_point, total, available) ==
    [name |-> name, mount_point |-> mount_point,
     total_space |-> total, available_space |-> available]

N_disk3s1 == <<"d","i","s","k","3","s","1">>
N_disk3s5 == <<"d","i","s","k","3","s","5">>
M_root == <<"/">>
M_data == <<"/","S","y","s","t","e","m","/","V","o","l","u","m","e","s","/","D","a","t","a">>
M_ext  == <<"/","V","o","l","u","m","e","s","/","E","x","t">>

\* an idle machine: one core, 3 of 8 memory units used, no traffic yet on the
\* two interfaces, the system volume and its data volume, no sensor
OsIdle ==
    [networks      |-> [i \in Interfaces |-> [rx |-> 0, tx |-> 0]],
     global_cpu    |-> Rat(10, 1),
     cpus          |-> <<Rat(10, 1)>>,
     mem_total     |-> 8,
     mem_used      |-> 3,
     mem_available |-> 5,
     disks         |-> <<Volume(N_disk3s1, M_root, 8, 2),
                         Volume(N_disk3s5, M_data, 8, 2)>>,
     components    |-> <<>>]

InitMonitorVars ==
    /\ os = OsIdle
    /\ monitor = SystemMonitor_new(OsIdle, 0)
    /\ prev_stats = SystemStats_default
    /\ npolls = 0
    /\ net_decreased = FALSE
    /\ polled_os = OsIdle

InitHistory ==
    /\ history \in {HistoryBuffer_new(n) : n \in 0..MaxCap}
    /\ stats = SystemStats_default
    /\ pushlog = <<>>
    /\ InitAlertVars
    /\ InitMonitorVars
    /\ InitAppVars

\* history.push(&stats)
Push(st) ==
    /\ Len(pushlog) < MaxPushes
    /\ history' = push(history, st)
    /\ stats' = st
    /\ pushlog' = Append(pushlog, st)
    /\ UNCHANGED <<alertVars, last_checked, monVars, appVars, uiVars>>

NextHistory == \E st \in HistSnapshots : Push(st)

SpecHistory == InitHistory /\ [][NextHistory]_vars

(***************************************************************************)
(* SpecAlert: an AlertManager checking snapshots as time passes            *)
(***************************************************************************)
\* the time that passes before a check: 10 s, just under 50 s, 50 s, 51 s
ClockSteps == {10000, 49999, 50000, 51000}

\* CPU load just under and at the threshold; memory use under and at the
\* threshold; no sensor, or a CPU sensor under and a GPU sensor at the
\* temperature threshold
AlertCpuLoads == {Rat(179, 2), Rat(90, 1)}
AlertMemUsed  == {7, 9}
AlertSensorCases ==
    { <<>>, <<Sensor(N_PMU_tdie1, 60), Sensor(N_GPU_Die, 95)>> }

AlertSnapshot(load, used, sensors) ==
    [cpu         |-> cpu_collect(load, <<load>>),
     memory      |-> memory_collect(10, used, 10 - used),
     disks       |-> <<>>,
     network     |-> SystemStats_default.network,
     temperature |-> collect_from(sensors),
     timestamp   |-> 0]

AlertSnapshots ==
    {AlertSnapshot(l, u, c) : l \in AlertCpuLoads, u \in AlertMemUsed, c \in AlertSensorCases}

InitAlert ==
    /\ history = HistoryBuffer_new(60)
    /\ stats = SystemStats_default
    /\ pushlog = <<>>
    /\ InitAlertVars
    /\ InitMonitorVars
    /\ InitAppVars

\* the titles among a sequence of events, as a sequence
TitlesOf(events) == [i \in 1..Len(events) |-> events[i].title]

\* what spawning osascript can do during a check: succeed or fail (a check
\* that raises no alert spawns nothing)
SinkOutcomes(a, st, now) ==
    IF check(a, st, now).events = <<>> THEN {TRUE} ELSE BOOLEAN

\* what alert.check(&stats) does to the alert manager and to its sink, dt
\* milliseconds after the previous check
CheckAt(st, dt) ==
    /\ nchecks < MaxChecks
    /\ ~check_panicked
    /\ \E up \in SinkOutcomes(alert, st, clock + dt) :
       LET now == clock + dt
           r   == check_notifying(alert, st, now, up)
       IN  /\ clock' = now
           /\ alert' = r.alert
           /\ notified' = r.events
           /\ fired' = [t \in Titles |->
                          IF \E i \in 1..Len(r.events) : r.events[i].title = t
                          THEN Append(fired[t], now) ELSE fired[t]]
           /\ sink_up' = up
           /\ spawned' = r.spawned
           /\ check_panicked' = r.panicked
    /\ stats' = st
    /\ last_checked' = st
    /\ nchecks' = nchecks + 1
    /\ UNCHANGED <<histVars, appVars, uiVars>>

\* alert.check(&stats), dt milliseconds after the previous check
Check(st, dt) == CheckAt(st, dt) /\ UNCHANGED monVars

NextAlert == \E st \in AlertSnapshots, dt \in ClockSteps : Check(st, dt)

SpecAlert == InitAlert /\ [][NextAlert]_vars

(***************************************************************************)
(* SpecCooldown: an AlertManager checking the snapshot of each cycle, the  *)
(* snapshot of the cycle before kept beside it                             *)
(***************************************************************************)
\* the time that passes before a check: 10 s, just under 50 s, 50 s
CooldownSteps == {10000, 49999, 50000}

\* CPU load and memory use under and at their thresholds, no sensor
CooldownSnapshots ==
    {AlertSnapshot(l, u, <<>>) : l \in AlertCpuLoads, u \in AlertMemUsed}

\* alert.check(&stats) on the snapshot of a new cycle
CheckCycle(st, dt) ==
    /\ CheckAt(st, dt)
    /\ prev_stats' = stats
    /\ UNCHANGED <<os, monitor, npolls, net_decreased, polled_os>>

NextCooldown == \E st \in CooldownSnapshots, dt \in CooldownSteps : CheckCycle(st, dt)

SpecCooldown == InitAlert /\ [][NextCooldown]_vars

(***************************************************************************)
(* SpecMonitor: a SystemMonitor polling while the interface counters move  *)
(***************************************************************************)
\* the time between two polls: under the 0.1 s floor, 2.5 s
PollSteps == {40, 2500}

\* the bytes an interface receives and transmits in one burst of traffic
TrafficRx(i) == 1500 * i
TrafficTx(i) == 700

InitMonitor ==
    /\ history = HistoryBuffer_new(60)
    /\ stats = SystemStats_default
    /\ pushlog = <<>>
    /\ InitAlertVars
    /\ os \in {[OsIdle EXCEPT !.networks = n] :
                 n \in {OsIdle.networks,
                        [i \in Interfaces |-> [rx |-> TrafficRx(i), tx |-> TrafficTx(i)]]}}
    /\ monitor = SystemMonitor_new(os, 0)
    /\ prev_stats = SystemStats_default
    /\ npolls = 0
    /\ net_decreased = FALSE
    /\ polled_os = os
    /\ InitAppVars

\* interface i carries traffic: its cumulative counters grow
NetTraffic(i) ==
    /\ i \in DOMAIN os.networks
    /\ os.networks[i].rx + TrafficRx(i) <= MaxNetEvents * TrafficRx(i)
    /\ os' = [os EXCEPT !.networks[i] = [rx |-> @.rx + TrafficRx(i),
                                         tx |-> @.tx + TrafficTx(i)]]
    /\ UNCHANGED <<monitor, prev_stats, npolls, stats, net_decreased, polled_os>>
    /\ UNCHANGED <<histVars, alertVars, last_checked, appVars, uiVars>>

\* interface i is reset: its cumulative counters restart from zero
CounterReset(i) ==
    /\ i \in DOMAIN os.networks
    /\ os.networks[i].rx > 0
    /\ os' = [os EXCEPT !.networks[i] = [rx |-> 0, tx |-> 0]]
    /\ net_decreased' = TRUE
    /\ UNCHANGED <<monitor, prev_stats, npolls, stats, polled_os>>
    /\ UNCHANGED <<histVars, alertVars, last_checked, appVars, uiVars>>

\* interface i disappears: refresh(true) drops it from the list
InterfaceRemoved(i) ==
    /\ i \in DOMAIN os.networks
    /\ os' = [os EXCEPT !.networks = [j \in (DOMAIN os.networks) \ {i} |-> os.networks[j]]]
    /\ net_decreased' = TRUE
    /\ UNCHANGED <<monitor, prev_stats, npolls, stats, polled_os>>
    /\ UNCHANGED <<histVars, alertVars, last_checked, appVars, uiVars>>

\* monitor.poll(), dt milliseconds after the previous poll
Poll(dt) ==
    /\ npolls < MaxPolls
    /\ LET now == clock + dt
           r   == poll(monitor, os, now)
       IN  /\ clock' = now
           /\ monitor' = r.monitor
           /\ stats' = r.stats
    /\ prev_stats' = stats
    /\ npolls' = npolls + 1
    /\ net_decreased' = FALSE
    /\ polled_os' = os
    /\ UNCHANGED <<os, histVars, alert, notified, fired, nchecks, sink_up, spawned, check_panicked, last_checked, appVars, uiVars>>

NextMonitor ==
    \/ \E i \in Interfaces : NetTraffic(i)
    \/ \E i \in Interfaces : CounterReset(i)
    \/ \E i \in Interfaces : InterfaceRemoved(i)
    \/ \E dt \in PollSteps : Poll(dt)

SpecMonitor == InitMonitor /\ [][NextMonitor]_vars

(***************************************************************************)
(* SpecDisks: a SystemMonitor polling while volumes are mounted            *)
(***************************************************************************)
\* the time between two polls of a collector specification
CollectorPollStep == 1000

N_disk4s1 == <<"d","i","s","k","4","s","1">>

\* the volumes Disks can list: the system volume a quarter free, its alias
\* under /System/Volumes, a second alias of the same device five eighths
\* free, an external volume reporting more available than total space, and
\* pseudo volumes without size
RawDisks ==
    {Volume(N_disk3s1, M_root, 8, 2),
     Volume(N_disk3s1, M_data, 8, 2),
     Volume(N_disk3s1, M_ext, 8, 5),
     Volume(N_disk4s1, M_ext, 8, 9),
     Volume(N_disk4s1, M_ext, 0, 0),
     Volume(N_disk3s1, M_root, 0, 1)}

InitDisks ==
    /\ history = HistoryBuffer_new(60)
    /\ stats = SystemStats_default
    /\ pushlog = <<>>
    /\ InitAlertVars
    /\ os = [OsIdle EXCEPT !.disks = <<>>]
    /\ monitor = SystemMonitor_new(os, 0)
    /\ prev_stats = SystemStats_default
    /\ npolls = 0
    /\ net_decreased = FALSE
    /\ polled_os = os
    /\ InitAppVars

\* a volume is mounted: refresh(true) lists it after the ones already there
DiskMounted(d) ==
    /\ Len(os.disks) < MaxDisks
    /\ os' = [os EXCEPT !.disks = Append(@, d)]
    /\ UNCHANGED <<monitor, prev_stats, npolls, stats, net_decreased, polled_os>>
    /\ UNCHANGED <<histVars, alertVars, last_checked, appVars, uiVars>>

NextDisks ==
    \/ \E d \in RawDisks : DiskMounted(d)
    \/ Poll(CollectorPollStep)

SpecDisks == InitDisks /\ [][NextDisks]_vars

(***************************************************************************)
(* SpecSensors: a SystemMonitor polling while sensors are listed           *)
(***************************************************************************)
N_NAND_Temp  == <<"N","A","N","D"," ","T","e","m","p">>
N_SSD_Sensor == <<"S","S","D"," ","S","e","n","s","o","r">>
N_PMU_tcal   == <<"P","M","U"," ","t","c","a","l">>
N_CPU_Die    == <<"C","P","U"," ","D","i","e">>

\* the components Components can list: die, storage and other sensors with
\* temperatures inside the validity window, on its upper edge (150), beyond
\* it (151, 200), at or under 0, and a sensor without a temperature
RawSensors ==
    {Sensor(N_PMU_tdie1, 40), Sensor(N_PMU_tdie2, 44), Sensor(N_PMU_tdie1, 200),
     Sensor(N_GPU_Die, 55), Sensor(N_GPU_Die, 0),
     Sensor(N_NAND_Temp, 38), Sensor(N_SSD_Sensor, 41), Sensor(N_SSD_Sensor, 151),
     Sensor(N_Battery, 30), Sensor(N_Battery, -5),
     Sensor(N_PMU_tcal, 50), Sensor(N_CPU_Die, 150),
     [label |-> N_Battery, temperature |-> <<>>]}

InitSensors ==
    /\ history = HistoryBuffer_new(60)
    /\ stats = SystemStats_default
    /\ pushlog = <<>>
    /\ InitAlertVars
    /\ InitMonitorVars
    /\ InitAppVars

\* a sensor appears: refresh(true) lists it after the ones already there
SensorListed(c) ==
    /\ Len(os.components) < MaxSensors
    /\ os' = [os EXCEPT !.components = Append(@, c)]
    /\ UNCHANGED <<monitor, prev_stats, npolls, stats, net_decreased, polled_os>>
    /\ UNCHANGED <<histVars, alertVars, last_checked, appVars, uiVars>>

NextSensors ==
    \/ \E c \in RawSensors : SensorListed(c)
    \/ Poll(CollectorPollStep)

SpecSensors == InitSensors /\ [][NextSensors]_vars

(***************************************************************************)
(* SpecClassifier: the first poll of a machine whose sensor labels match   *)
(* several classification rules at once                                    *)
(***************************************************************************)
N_CPU_SSD       == <<"C","P","U"," ","S","S","D">>
N_PMU_tdie_GPU  == <<"P","M","U"," ","t","d","i","e"," ","G","P","U">>
N_PMU2_tdie_CPU == <<"P","M","U","2"," ","t","d","i","e"," ","C","P","U">>
N_PMU_tdev_GPU  == <<"P","M","U"," ","t","d","e","v"," ","G","P","U">>
N_GPU_CPU       == <<"G","P","U"," ","C","P","U">>
N_Airflow       == <<"A","i","r","f","l","o","w">>

\* one sensor per precedence case: a label holding a storage keyword and
\* "cpu", the three PMU prefixes followed by the keyword of another category,
\* a label holding "gpu" and "cpu", a plain GPU sensor, a PMU entry outside
\* the die patterns, and two sensors of no category
ClassifierSensors ==
    {Sensor(N_CPU_SSD, 45), Sensor(N_PMU_tdie_GPU, 50), Sensor(N_PMU2_tdie_CPU, 60),
     Sensor(N_PMU_tdev_GPU, 52), Sensor(N_GPU_CPU, 48), Sensor(N_GPU_Die, 55),
     Sensor(N_PMU_tcal, 51), Sensor(N_Battery, 30), Sensor(N_Airflow, 28)}

\* the component lists of at most MaxListed of these sensors, each listed
\* at most once, in every order
SensorListings ==
    {l \in UNION {[1..k -> ClassifierSensors] : k \in 0..MaxListed} :
        \A i, j \in DOMAIN l : i # j => l[i] # l[j]}

InitClassifier ==
    /\ history = HistoryBuffer_new(60)
    /\ stats = SystemStats_default
    /\ pushlog = <<>>
    /\ InitAlertVars
    /\ os \in {[OsIdle EXCEPT !.components = l] : l \in SensorListings}
    /\ monitor = SystemMonitor_new(os, 0)
    /\ prev_stats = SystemStats_default
    /\ npolls = 0
    /\ net_decreased = FALSE
    /\ polled_os = os
    /\ InitAppVars

\* the first monitor.poll() after construction
FirstPoll == npolls = 0 /\ Poll(CollectorPollStep)

NextClassifier == FirstPoll

SpecClassifier == InitClassifier /\ [][NextClassifier]_vars

(***************************************************************************)
(* Spec: the application (main.rs, app.rs): the first tick, then the event *)
(* loop running a tick whenever the poll interval has elapsed              *)
(***************************************************************************)
HISTORY_POINTS == 60

\* App::tick with the alert check ahead of the history push
TickCalls_check_first == <<"poll", "check", "update", "push", "render">>

\* App::tick without the alert check
TickCalls_no_check == <<"poll", "push", "update", "render">>

\* the calls App::tick makes, in order
TickCalls == <<"poll", "push", "update", "check", "render">>

\* a busy machine: full CPU load, memory full, traffic on both interfaces,
\* a hot CPU sensor
OsBusy ==
    [networks      |-> [i \in Interfaces |-> [rx |-> TrafficRx(i), tx |-> TrafficTx(i)]],
     global_cpu    |-> Rat(95, 1),
     cpus          |-> <<Rat(95, 1)>>,
     mem_total     |-> 8,
     mem_used      |-> 8,
     mem_available |-> 0,
     disks         |-> OsIdle.disks,
     components    |-> <<Sensor(N_PMU_tdie1, 96)>>]

\* an idle machine with a die sensor at 40 degrees
OsWarm == [OsIdle EXCEPT !.components = <<Sensor(N_PMU_tdie1, 40)>>]

\* a machine under full CPU load whose sensors yield nothing: a PMU entry
\* that is skipped, a die sensor at 200 degrees, a sensor without a value
OsUnreadable ==
    [OsIdle EXCEPT !.global_cpu = Rat(95, 1),
                   !.cpus = <<Rat(95, 1)>>,
                   !.components = <<Sensor(N_PMU_tcal, 50), Sensor(N_PMU_tdie1, 200),
                                    [label |-> N_Battery, temperature |-> <<>>]>>]

AppOsStates == {OsIdle, OsBusy, OsWarm, OsUnreadable}

\* the time after which the event loop wakes up
WakeSteps == {400, 1000}

\* the poll intervals the menu offers that the model uses
PollIntervalChoices == {1, 2}

\* the time AlertManager::check reads its clock after the poll of the same tick
CheckLatency == {7}

Init ==
    /\ history = HistoryBuffer_new(HISTORY_POINTS)
    /\ stats = SystemStats_default
    /\ pushlog = <<>>
    /\ InitAlertVars
    /\ InitMonitorVars
    /\ InitAppVars

\* the call at tick_pc returns: the next call of the tick, or the return to
\* main, which sets poll_interval and last_tick (t: Instant::now() in main)
TickAdvance(t) ==
    IF tick_pc < Len(TickCalls)
    THEN /\ tick_pc' = tick_pc + 1
         /\ UNCHANGED <<phase, loop_now, last_tick, poll_interval, config>>
    ELSE /\ tick_pc' = 0
         /\ phase' = "loop"
         /\ poll_interval' = config.poll_interval_secs * 1000
         /\ last_tick' = IF phase = "main" THEN t ELSE loop_now
         /\ UNCHANGED <<loop_now, config>>

AtCall(name) == tick_pc >= 1 /\ tick_pc <= Len(TickCalls) /\ TickCalls[tick_pc] = name

\* let stats = self.monitor.poll();
TickPoll ==
    /\ AtCall("poll")
    /\ LET r == poll(monitor, os, clock)
       IN  /\ monitor' = r.monitor
           /\ stats' = r.stats
    /\ prev_stats' = stats
    /\ npolls' = npolls + 1
    /\ net_decreased' = FALSE
    /\ polled_os' = os
    /\ TickAdvance(clock)
    /\ UNCHANGED <<os, clock, histVars, alert, notified, fired, nchecks, sink_up, spawned, check_panicked, last_checked, uiVars>>

\* self.history.push(&stats);
TickPush ==
    /\ AtCall("push")
    /\ history' = push(history, stats)
    /\ pushlog' = Append(pushlog, stats)
    /\ TickAdvance(clock)
    /\ UNCHANGED <<stats, alertVars, last_checked, monVars, uiVars>>

\* self.tray.update(&stats, &self.config);
TickUpdate ==
    /\ AtCall("update")
    /\ LET u == update(runner, stats, config)
       IN  /\ runner' = u.runner
           /\ temp_title' = u.temp_title
           /\ MENU_ACTIONS' = u.actions
    /\ TickAdvance(clock)
    /\ UNCHANGED <<PENDING_EVENT, triggered, handled>>
    /\ UNCHANGED <<stats, histVars, alertVars, last_checked, monVars>>

\* self.alert.check(&stats);
TickCheck ==
    /\ AtCall("check")
    /\ ~check_panicked
    /\ \E d \in CheckLatency : \E up \in SinkOutcomes(alert, stats, clock + d) :
         LET now == clock + d
             r   == check_notifying(alert, stats, now, up)
         IN  /\ clock' = now
             /\ alert' = r.alert
             /\ notified' = r.events
             /\ fired' = [t \in Titles |->
                            IF \E i \in 1..Len(r.events) : r.events[i].title = t
                            THEN Append(fired[t], now) ELSE fired[t]]
             /\ sink_up' = up
             /\ spawned' = r.spawned
             /\ check_panicked' = r.panicked
             /\ IF r.panicked
                THEN UNCHANGED <<appVars, uiVars>>
                ELSE TickAdvance(now)
    /\ last_checked' = stats
    /\ nchecks' = nchecks + 1
    /\ UNCHANGED <<stats, histVars, monVars, uiVars>>

\* self.chart_window.render(&self.history);
TickRender ==
    /\ AtCall("render")
    /\ TickAdvance(clock)
    /\ UNCHANGED <<stats, histVars, alertVars, last_checked, monVars, uiVars>>

\* the closure comparing the elapsed time with the configured interval
\* instead of the loop's copy of it
LoopWake_reads_config(dt) ==
    /\ phase = "loop"
    /\ tick_pc = 0
    /\ npolls < MaxPolls
    /\ clock' = clock + dt
    /\ loop_now' = clock'
    /\ tick_pc' = IF duration_since(clock', last_tick) >= config.poll_interval_secs * 1000
                  THEN 1 ELSE 0
    /\ UNCHANGED <<phase, last_tick, poll_interval, config>>
    /\ UNCHANGED <<stats, histVars, alert, notified, fired, nchecks, sink_up, spawned, check_panicked, last_checked, monVars, uiVars>>

\* the event loop runs its closure dt milliseconds later: a tick starts when
\* poll_interval has elapsed since last_tick
LoopWake(dt) ==
    /\ phase = "loop"
    /\ tick_pc = 0
    /\ npolls < MaxPolls
    /\ clock' = clock + dt
    /\ loop_now' = clock'
    /\ tick_pc' = IF duration_since(clock', last_tick) >= poll_interval THEN 1 ELSE 0
    /\ UNCHANGED <<phase, last_tick, poll_interval, config>>
    /\ UNCHANGED <<stats, histVars, alert, notified, fired, nchecks, sink_up, spawned, check_panicked, last_checked, monVars, uiVars>>

\* the machine's load changes while the event loop waits
OsChange ==
    /\ phase = "loop"
    /\ tick_pc = 0
    /\ npolls < MaxPolls
    /\ os' \in AppOsStates \ {os}
    /\ net_decreased' =
          (net_decreased \/ \E i \in Interfaces : os'.networks[i].rx < os.networks[i].rx)
    /\ UNCHANGED <<monitor, prev_stats, npolls, polled_os>>
    /\ UNCHANGED <<stats, histVars, alertVars, last_checked, appVars, uiVars>>

\* the poll-interval menu entry: App::set_poll_interval(secs)
set_poll_interval(secs) ==
    /\ phase = "loop"
    /\ tick_pc = 0
    /\ npolls < MaxPolls
    /\ secs # config.poll_interval_secs
    /\ config' = [config EXCEPT !.poll_interval_secs = secs]
    /\ UNCHANGED <<phase, tick_pc, loop_now, last_tick, poll_interval>>
    /\ UNCHANGED <<stats, histVars, alertVars, last_checked, monVars, uiVars>>

Next ==
    \/ TickPoll
    \/ TickPush
    \/ TickUpdate
    \/ TickCheck
    \/ TickRender
    \/ \E dt \in WakeSteps : LoopWake(dt)
    \/ OsChange
    \/ \E secs \in PollIntervalChoices : set_poll_interval(secs)

Spec == Init /\ [][Next]_vars

(***************************************************************************)
(* SpecTray: the temperature item of the menu bar under updates and        *)
(* changes of the displayed component                                      *)
(***************************************************************************)
\* the component fragments a configuration can hold: the three the menu
\* offers, and fragments from a hand-written config.json
TrayFragments ==
    {L_CPU, L_GPU, L_SSD, <<"c","p","u">>, <<"G","p","u">>, <<"p","U">>,
     <<"B","A","T","T">>, <<"a">>, <<"d">>, <<"x">>, <<>>}

\* the components the temperature menu offers
TempChoices == {L_CPU, L_GPU, L_SSD}

\* what the sensors of a cycle can be
TraySensorCases ==
    { <<>>,
      <<Sensor(N_PMU_tdie1, 40), Sensor(N_GPU_Die, 55), Sensor(N_SSD_Sensor, 41),
        Sensor(N_Battery, 30)>>,
      <<Sensor(N_Airflow, 28), Sensor(N_Battery, 30), Sensor(N_GPU_Die, 55)>>,
      <<Sensor(N_Battery, 30), Sensor(N_Airflow, 28), Sensor(N_NAND_Temp, 38)>>,
      <<Sensor(N_GPU_Die, 55), Sensor(N_PMU_tdie1, 40)>>,
      <<Sensor(N_CPU_Die, 150)>>,
      <<Sensor(N_Battery, 30)>> }

TraySnapshots ==
    {[SystemStats_default EXCEPT !.temperature = collect_from(c)] : c \in TraySensorCases}

InitTray ==
    /\ history = HistoryBuffer_new(60)
    /\ stats = SystemStats_default
    /\ pushlog = <<>>
    /\ InitAlertVars
    /\ InitMonitorVars
    /\ phase = "main"
    /\ tick_pc = 1
    /\ loop_now = 0
    /\ last_tick = 0
    /\ poll_interval = 0
    /\ config \in {[Config_default EXCEPT !.menubar_temp_component = f] : f \in TrayFragments}
    /\ InitUiVars

\* tray.update(&stats, &config) with the snapshot of a cycle
TrayUpdate(st) ==
    /\ stats' = st
    /\ LET u == update(runner, st, config)
       IN  /\ runner' = u.runner
           /\ temp_title' = u.temp_title
           /\ MENU_ACTIONS' = u.actions
    /\ UNCHANGED <<PENDING_EVENT, triggered, handled>>
    /\ UNCHANGED <<histVars, alertVars, last_checked, monVars, appVars>>

\* App::set_temp_component(label): a temperature choice of the menu
set_temp_component(label) ==
    /\ label # config.menubar_temp_component
    /\ config' = [config EXCEPT !.menubar_temp_component = label]
    /\ UNCHANGED <<phase, tick_pc, loop_now, last_tick, poll_interval>>
    /\ UNCHANGED <<stats, histVars, alertVars, last_checked, monVars, uiVars>>

NextTray ==
    \/ \E st \in TraySnapshots : TrayUpdate(st)
    \/ \E label \in TempChoices : set_temp_component(label)

SpecTray == InitTray /\ [][NextTray]_vars

(***************************************************************************)
(* SpecMenu: menu callbacks and the event loop taking the pending action   *)
(***************************************************************************)
\* the senders of the callbacks: a null sender, an item whose tag is not
\* registered, the items of two refresh intervals, of "All" and of the GPU
\* temperature choice
ClickedSenders == {<<>>, <<0>>, <<101>>, <<102>>, <<105>>, <<402>>}

\* the application after its first tick: the menus are built
InitMenu ==
    /\ history = HistoryBuffer_new(60)
    /\ stats = SystemStats_default
    /\ pushlog = <<>>
    /\ InitAlertVars
    /\ InitMonitorVars
    /\ phase = "loop"
    /\ tick_pc = 0
    /\ loop_now = 0
    /\ last_tick = 0
    /\ poll_interval = Config_default.poll_interval_secs * 1000
    /\ config = Config_default
    /\ LET u == update(RunnerAnimator_new(DiscoveredSets), SystemStats_default, Config_default)
       IN  /\ runner = u.runner
           /\ temp_title = u.temp_title
           /\ MENU_ACTIONS = u.actions
    /\ PENDING_EVENT = <<>>
    /\ triggered = <<>>
    /\ handled = <<>>

\* AppKit calls menu_action_triggered for a sender
MenuItemClicked(sender) ==
    /\ Len(triggered) < MaxMenuEvents
    /\ PENDING_EVENT' = menu_action_triggered(MENU_ACTIONS, PENDING_EVENT, sender)
    /\ triggered' = Append(triggered, sender)
    /\ UNCHANGED <<runner, temp_title, MENU_ACTIONS, handled>>
    /\ UNCHANGED <<stats, histVars, alertVars, last_checked, monVars, appVars>>

\* the end of the event-loop closure with an action in the slot:
\* if let Some(action) = take_pending_event() { match action.as_str() ... }
HandleMenuEvent ==
    /\ PENDING_EVENT # <<>>
    /\ LET t      == take_pending_event(PENDING_EVENT)
           action == t.taken[1]
       IN  /\ PENDING_EVENT' = t.pending
           /\ handled' = Append(handled, action)
           /\ IF action.prefix = "runner_all"
              THEN LET r == select_all_runners(config, runner)
                   IN  config' = r.config /\ runner' = r.runner
              ELSE IF action.prefix = "interval_"
              THEN /\ config' = [config EXCEPT !.poll_interval_secs = action.rest]
                   /\ runner' = runner
              ELSE IF action.prefix = "temp_"
              THEN /\ config' = [config EXCEPT !.menubar_temp_component = action.rest]
                   /\ runner' = runner
              ELSE UNCHANGED <<config, runner>>
    /\ UNCHANGED <<temp_title, MENU_ACTIONS, triggered>>
    /\ UNCHANGED <<phase, tick_pc, loop_now, last_tick, poll_interval>>
    /\ UNCHANGED <<stats, histVars, alertVars, last_checked, monVars>>

NextMenu ==
    \/ \E sender \in ClickedSenders : MenuItemClicked(sender)
    \/ HandleMenuEvent

SpecMenu == InitMenu /\ [][NextMenu]_vars

(***************************************************************************)
(* SpecRunner: the runner rotation of the configuration under the three    *)
(* operations of the runner menu                                           *)
(***************************************************************************)
R_custom1 == RunnerId("custom", "set-1")
R_ghost   == RunnerId("runcat", "ghost")

\* what discover_runcat_sets can return: every probed prefix missing from
\* the bundle, the cat alone, three sets, sets without the cat
RunnerDiscoveries ==
    {<<>>, <<R_cat>>, <<R_cat, R_cat_b, R_dog>>, <<R_cat_b, R_dog>>}

\* the custom sets of the loaded configuration
CustomSetCases == {<<>>, <<"set-1">>}

\* the runners and categories the operations are called with: the known
\* ones, a runner that does not exist and a category outside the table
RunnerIdInputs == {R_cat, R_cat_b, R_dog, R_custom1, R_fallback, R_ghost}
CategoryInputs == {"Cats", "Dogs", "Birds"}

\* the application after its first tick, the rotation list of the
\* configuration holding the default runner
InitRunner ==
    /\ history = HistoryBuffer_new(60)
    /\ stats = SystemStats_default
    /\ pushlog = <<>>
    /\ InitAlertVars
    /\ InitMonitorVars
    /\ phase = "loop"
    /\ tick_pc = 0
    /\ loop_now = 0
    /\ last_tick = 0
    /\ poll_interval = Config_default.poll_interval_secs * 1000
    /\ config \in {[Config_default EXCEPT !.custom_runner_sets = c] : c \in CustomSetCases}
    /\ \E ds \in RunnerDiscoveries :
         LET u == update(RunnerAnimator_new(ds), SystemStats_default, config)
         IN  /\ runner = u.runner
             /\ temp_title = u.temp_title
             /\ MENU_ACTIONS = u.actions
    /\ PENDING_EVENT = <<>>
    /\ triggered = <<>>
    /\ handled = <<>>

\* App::toggle_runner_in_rotation(runner_id)
ToggleRunner(runner_id) ==
    /\ LET r == toggle_runner_in_rotation(config, runner, runner_id)
       IN  config' = r.config /\ runner' = r.runner
    /\ UNCHANGED <<temp_title, MENU_ACTIONS, PENDING_EVENT, triggered, handled>>
    /\ UNCHANGED <<phase, tick_pc, loop_now, last_tick, poll_interval>>
    /\ UNCHANGED <<stats, histVars, alertVars, last_checked, monVars>>

\* App::select_all_runners()
SelectAllRunners ==
    /\ LET r == select_all_runners(config, runner)
       IN  config' = r.config /\ runner' = r.runner
    /\ UNCHANGED <<temp_title, MENU_ACTIONS, PENDING_EVENT, triggered, handled>>
    /\ UNCHANGED <<phase, tick_pc, loop_now, last_tick, poll_interval>>
    /\ UNCHANGED <<stats, histVars, alertVars, last_checked, monVars>>

\* App::select_runner_category(category)
SelectRunnerCategory(category) ==
    /\ LET r == select_runner_category(config, runner, category)
       IN  config' = r.config /\ runner' = r.runner
    /\ UNCHANGED <<temp_title, MENU_ACTIONS, PENDING_EVENT, triggered, handled>>
    /\ UNCHANGED <<phase, tick_pc, loop_now, last_tick, poll_interval>>
    /\ UNCHANGED <<stats, histVars, alertVars, last_checked, monVars>>

NextRunner ==
    \/ \E id \in RunnerIdInputs : ToggleRunner(id)
    \/ SelectAllRunners
    \/ \E c \in CategoryInputs : SelectRunnerCategory(c)

SpecRunner == InitRunner /\ [][NextRunner]_vars

(***************************************************************************)
(* Properties of the history buffer                                        *)
(***************************************************************************)
\* every series of a buffer: the four fixed ones and one per label
AllSeries(h) ==
    {h.cpu_usage, h.mem_usage, h.net_down, h.net_up}
        \cup {h.temps[l] : l \in DOMAIN h.temps}

\* the last n elements of s
LastN(s, n) == SubSeq(s, Len(s) - n + 1, Len(s))

\* the values the snapshots of log handed to the series of a label, in order
RECURSIVE TempValuesPushed(_, _)
TempValuesPushed(log, label) ==
    IF log = <<>> THEN <<>>
    ELSE LET rs   == Head(log).temperature.readings
             mine == SelectSeq(rs, LAMBDA r : r.label = label)
         IN  [i \in 1..Len(mine) |-> mine[i].temp_c]
                 \o TempValuesPushed(Tail(log), label)

CpuValuesPushed(log)  == [i \in 1..Len(log) |-> log[i].cpu.global_usage]
MemValuesPushed(log)  == [i \in 1..Len(log) |-> log[i].memory.usage_percent]
DownValuesPushed(log) == [i \in 1..Len(log) |-> Rat(log[i].network.received_per_sec, 1024)]
UpValuesPushed(log)   == [i \in 1..Len(log) |-> Rat(log[i].network.transmitted_per_sec, 1024)]

\* series holds exactly the last min(k, N) of the k values pushed to it
HoldsLast(series, pushed, N) == series = LastN(pushed, Min(Len(pushed), N))

\* C1: for a HistoryBuffer of any capacity N and any sequence of pushes,
\* every series (cpu_usage, mem_usage, net_down, net_up, every per-label
\* temperature series) has 0 <= len <= N in every reachable state.
C1_SeriesWithinCapacity ==
    \A s \in AllSeries(history) : Len(s) <= history.max_points

\* C1 restricted to the capacities N >= 1 (what the code does guarantee)
SeriesWithinPositiveCapacity ==
    history.max_points >= 1 => C1_SeriesWithinCapacity

\* C2: after any sequence of pushes each series holds exactly the last
\* min(k, N) values pushed to that series, oldest first, k being the number
\* of values pushed to it (so a push onto a full series evicts exactly the
\* oldest element before it appends).
C2_SeriesHoldLastValues ==
    /\ HoldsLast(history.cpu_usage, CpuValuesPushed(pushlog), history.max_points)
    /\ HoldsLast(history.mem_usage, MemValuesPushed(pushlog), history.max_points)
    /\ HoldsLast(history.net_down, DownValuesPushed(pushlog), history.max_points)
    /\ HoldsLast(history.net_up, UpValuesPushed(pushlog), history.max_points)
    /\ \A l \in DOMAIN history.temps :
          HoldsLast(history.temps[l], TempValuesPushed(pushlog, l), history.max_points)

\* C2 restricted to the capacities N >= 1
SeriesHoldLastValuesPositiveCapacity ==
    history.max_points >= 1 => C2_SeriesHoldLastValues

\* C7: a capacity of zero is rejected at construction, so that no
\* HistoryBuffer of capacity 0 is ever pushed to.
C7_ZeroCapacityNeverPushedTo ==
    pushlog # <<>> => history.max_points # 0

\* new results from old by appending exactly one point v (after evicting
\* the oldest point when old is full)
OnePointAppended(old, new, v, N) ==
    \/ new = Append(old, v)
    \/ Len(old) >= N /\ new = Append(pop_front(old), v)

\* C10: a single push appends at most one point to each temperature series
\* and exactly one point to each of the fixed CPU, memory, network-down and
\* network-up series: no series gains more than one point per cycle.
C10_OnePointPerSeriesPerPush ==
    [][LET N == history.max_points
       IN  /\ \A l \in DOMAIN history'.temps :
                LET old == temps_get(history.temps, l)
                    new == history'.temps[l]
                IN  new = old \/ OnePointAppended(old, new, new[Len(new)], N)
           /\ OnePointAppended(history.cpu_usage, history'.cpu_usage,
                               stats'.cpu.global_usage, N)
           /\ OnePointAppended(history.mem_usage, history'.mem_usage,
                               stats'.memory.usage_percent, N)
           /\ OnePointAppended(history.net_down, history'.net_down,
                               Rat(stats'.network.received_per_sec, 1024), N)
           /\ OnePointAppended(history.net_up, history'.net_up,
                               Rat(stats'.network.transmitted_per_sec, 1024), N)
      ]_vars

\* C10 for the fixed series and for the labels that occur once in the snapshot
OnePointPerSeriesWithoutDuplicateLabels ==
    [][(\A i, j \in 1..Len(stats'.temperature.readings) :
            stats'.temperature.readings[i].label = stats'.temperature.readings[j].label
                => i = j)
        => LET N == history.max_points
           IN  \A l \in DOMAIN history'.temps :
                LET old == temps_get(history.temps, l)
                    new == history'.temps[l]
                IN  new = old \/ OnePointAppended(old, new, new[Len(new)], N)
      ]_vars

\* the labels of the readings of a snapshot
LabelsOf(st) ==
    {st.temperature.readings[i].label : i \in 1..Len(st.temperature.readings)}

\* C11: a temperature label seen for the first time in a push creates a new
\* series that is empty before that push and holds exactly one value after
\* it, whatever the lengths of the series that already existed (no backfill
\* for the earlier cycles).
C11_NewSeriesStartsWithOneValue ==
    [][\A l \in (DOMAIN history'.temps) \ (DOMAIN history.temps) :
          /\ temps_get(history.temps, l) = <<>>
          /\ Len(history'.temps[l]) = 1
      ]_vars

\* C11 for the labels that occur once in the pushed snapshot
NewSeriesWithoutDuplicateLabels ==
    [][\A l \in (DOMAIN history'.temps) \ (DOMAIN history.temps) :
          Cardinality({i \in 1..Len(stats'.temperature.readings) :
                          stats'.temperature.readings[i].label = l}) = 1
             => Len(history'.temps[l]) = 1
      ]_vars

\* C12: push never changes max_points, never removes a series and never
\* reduces the length of a series; a temperature series whose label is
\* absent from the pushed snapshot is left unchanged.
C12_PushKeepsCapacityAndSeries ==
    [][/\ history'.max_points = history.max_points
       /\ (DOMAIN history.temps) \subseteq (DOMAIN history'.temps)
       /\ Len(history'.cpu_usage) >= Len(history.cpu_usage)
       /\ Len(history'.mem_usage) >= Len(history.mem_usage)
       /\ Len(history'.net_down) >= Len(history.net_down)
       /\ Len(history'.net_up) >= Len(history.net_up)
       /\ \A l \in DOMAIN history.temps :
            /\ Len(history'.temps[l]) >= Len(history.temps[l])
            /\ l \notin LabelsOf(stats') => history'.temps[l] = history.temps[l]
      ]_vars

\* a buffer of capacity 2 after more pushes than its capacity: the fixed
\* series are full, and a series exists whose label the last snapshot lacks
C12_Witness ==
    /\ history.max_points = 2
    /\ Len(pushlog) >= 3
    /\ Len(history.cpu_usage) = 2
    /\ Len(history.net_up) = 2
    /\ \E l \in DOMAIN history.temps :
          /\ l \notin LabelsOf(pushlog[Len(pushlog)])
          /\ history.temps[l] # <<>>

\* C27: after k pushes to a HistoryBuffer of capacity N >= 1 the four fixed
\* series cpu_usage, mem_usage, net_down and net_up all have the length
\* min(k, N) and their i-th elements come from the same snapshot;
\* temperature series are not kept aligned with them (the series of a label
\* absent in some cycles is shorter).
C27_FixedSeriesAligned ==
    history.max_points >= 1 =>
      LET k == Len(pushlog)
          n == IF k <= history.max_points THEN k ELSE history.max_points
      IN  /\ Len(history.cpu_usage) = n
          /\ Len(history.mem_usage) = n
          /\ Len(history.net_down) = n
          /\ Len(history.net_up) = n
          /\ \A i \in 1..n :
                LET st == pushlog[k - n + i]
                IN  /\ history.cpu_usage[i] = st.cpu.global_usage
                    /\ history.mem_usage[i] = st.memory.usage_percent
                    /\ history.net_down[i] = Rat(st.network.received_per_sec, 1024)
                    /\ history.net_up[i] = Rat(st.network.transmitted_per_sec, 1024)
          /\ \A l \in DOMAIN history.temps :
                \/ Len(history.temps[l]) = n
                \/ \E j \in 1..k : l \notin LabelsOf(pushlog[j])
                \/ \E j \in 1..k :
                      Cardinality({i \in 1..Len(pushlog[j].temperature.readings) :
                                      pushlog[j].temperature.readings[i].label = l}) > 1

\* a buffer of capacity 3 after four pushes of snapshots with differing
\* loads: the fixed series are full, the oldest snapshot is gone from all
\* four, and the series of a label that two of the cycles lacked is shorter
C27_Witness ==
    /\ history.max_points = 3
    /\ Len(pushlog) = 4
    /\ Len(history.cpu_usage) = 3
    /\ Len(history.net_down) = 3
    /\ history.cpu_usage[1] # history.cpu_usage[2]
    /\ pushlog[1].cpu.global_usage # pushlog[2].cpu.global_usage
    /\ \E l \in DOMAIN history.temps :
          /\ Len(history.temps[l]) = 2
          /\ l \in LabelsOf(pushlog[4])
          /\ l \notin LabelsOf(pushlog[3])

(***************************************************************************)
(* Properties of the alert manager                                         *)
(***************************************************************************)
\* v >= n for a rational v and an integer n
AtLeast(v, n) == v.num >= n * v.den

\* the metric behind an alert title is at or above its threshold in st:
\* CPU usage >= 90, memory usage >= 90, some reading >= 95 degrees
MetricHigh(t, st) ==
    IF t = T_CPU THEN AtLeast(st.cpu.global_usage, 90)
    ELSE IF t = T_MEM THEN AtLeast(st.memory.usage_percent, 90)
    ELSE \E i \in 1..Len(st.temperature.readings) :
            AtLeast(st.temperature.readings[i].temp_c, 95)

\* the last-alert timestamp the manager keeps for a title
LastAlert(a, t) ==
    IF t = T_CPU THEN a.last_cpu_alert
    ELSE IF t = T_MEM THEN a.last_mem_alert
    ELSE a.last_temp_alert

\* never alerted, or at least 60 s (60000 ms) before now
OutOfCooldown(last, now) == last = <<>> \/ now - last[1] >= 60000

\* the number of events with title t among events
EventCount(events, t) ==
    Cardinality({i \in 1..Len(events) : events[i].title = t})

\* C3: for each metric, a check emits an alert for it if and only if its
\* value is >= its threshold and it has never alerted or at least 60 s have
\* passed since its last alert; when it fires it emits exactly one event
\* and records the time of the check as the metric's last-alert timestamp.
C3_AlertIffHighAndCooledDown ==
    [][\A t \in Titles :
        /\ EventCount(notified', t) =
              IF MetricHigh(t, stats') /\ OutOfCooldown(LastAlert(alert, t), clock')
              THEN 1 ELSE 0
        /\ EventCount(notified', t) = 1 => LastAlert(alert', t) = <<clock'>>
      ]_alertVars

\* a check has just fired the CPU alert and recorded it, while memory, at
\* its threshold, stays silent inside its cooldown
C3_Witness ==
    /\ TitlesOf(notified) = <<T_CPU>>
    /\ alert.last_cpu_alert = <<clock>>
    /\ MetricHigh(T_MEM, stats)
    /\ alert.last_mem_alert # <<>>
    /\ ~MetricHigh(T_TEMP, stats)

\* C4: no alert is emitted inside the cooldown window: any two consecutive
\* alerts for the same metric are at least 60 s apart.
C4_ConsecutiveAlertsSixtySecondsApart ==
    \A t \in Titles : \A i \in 1..(Len(fired[t]) - 1) :
        fired[t][i + 1] - fired[t][i] >= 60000

\* the CPU alert fired, was held back at +10 s and fired again at +61 s,
\* at a check where memory (alerted 51 s ago) is at its threshold and silent
C4_Witness ==
    /\ Len(fired[T_CPU]) = 2
    /\ fired[T_CPU][2] = clock
    /\ fired[T_CPU][2] - fired[T_CPU][1] = 61000
    /\ nchecks = 3
    /\ MetricHigh(T_MEM, stats)
    /\ fired[T_MEM] = <<clock - 51000>>

\* C5: the cooldown is tracked per metric: a check changes a metric's
\* last-alert timestamp only when that metric fires, a metric at its
\* threshold and out of its own cooldown fires whatever the other two did,
\* and three such metrics all fire in the same check.
C5_CooldownPerMetric ==
    [][/\ \A t \in Titles :
            /\ EventCount(notified', t) = 0 => LastAlert(alert', t) = LastAlert(alert, t)
            /\ (MetricHigh(t, stats') /\ OutOfCooldown(LastAlert(alert, t), clock'))
                  => EventCount(notified', t) >= 1
       /\ (\A t \in Titles :
              MetricHigh(t, stats') /\ OutOfCooldown(LastAlert(alert, t), clock'))
            => TitlesOf(notified') = <<T_CPU, T_MEM, T_TEMP>>
      ]_alertVars

\* memory fires for the first time 10 s after a CPU alert, in a check where
\* the CPU is still at its threshold and is held back
C5_Witness ==
    /\ TitlesOf(notified) = <<T_MEM>>
    /\ fired[T_MEM] = <<clock>>
    /\ fired[T_CPU] = <<clock - 10000>>
    /\ MetricHigh(T_CPU, stats)

\* C25: a metric's last-alert timestamp changes only in a check that fires
\* an alert for that metric: a check that sees the metric below its
\* threshold, or at or above it but inside the cooldown, leaves the
\* timestamp unchanged; dropping below the threshold does not reset the
\* cooldown, so a metric that falls below and re-crosses the threshold
\* within 60 s of its last alert emits nothing.
C25_TimestampChangesOnlyOnFire ==
    [][\A t \in Titles :
        /\ LastAlert(alert', t) # LastAlert(alert, t)
              => /\ EventCount(notified', t) = 1
                 /\ LastAlert(alert', t) = <<clock'>>
        /\ ~MetricHigh(t, stats')
              => /\ LastAlert(alert', t) = LastAlert(alert, t)
                 /\ EventCount(notified', t) = 0
        /\ (MetricHigh(t, stats') /\ ~OutOfCooldown(LastAlert(alert, t), clock'))
              => /\ LastAlert(alert', t) = LastAlert(alert, t)
                 /\ EventCount(notified', t) = 0
        /\ (LastAlert(alert, t) # <<>> /\ ~MetricHigh(t, stats) /\ MetricHigh(t, stats')
              /\ clock' - LastAlert(alert, t)[1] < 60000)
              => EventCount(notified', t) = 0
      ]_alertVars

\* the CPU alerted, was under its threshold at the next check and is at its
\* threshold again 59.999 s after the alert: the check emits nothing for it
\* and the timestamp of the alert is still in place
C25_Witness ==
    /\ nchecks = 3
    /\ ~MetricHigh(T_CPU, prev_stats)
    /\ MetricHigh(T_CPU, stats)
    /\ EventCount(notified, T_CPU) = 0
    /\ alert.last_cpu_alert = <<clock - 59999>>
    /\ fired[T_CPU] = <<clock - 59999>>

\* C26: alerts are level-triggered with a cooldown, not edge-triggered: a
\* metric that was at or above its threshold at the previous check and is so
\* at this check, and that has alerted before, alerts again at this check
\* exactly when at least 60 whole seconds have passed since its previous
\* alert; it need not have dropped below the threshold in between.
C26_LevelTriggeredRefire ==
    [][\A t \in Titles :
        (nchecks >= 1 /\ MetricHigh(t, stats) /\ MetricHigh(t, stats')
           /\ LastAlert(alert, t) # <<>>)
        => /\ EventCount(notified', t) =
                IF (clock' - LastAlert(alert, t)[1]) \div 1000 >= 60 THEN 1 ELSE 0
           /\ EventCount(notified', t) = 1 => fired'[t] = Append(fired[t], clock')
      ]_alertVars

\* the CPU was at its threshold at three checks in a row: it alerted at the
\* first, was held back 10 s later and alerted again at the third check,
\* 60 s after the first
C26_Witness ==
    /\ nchecks = 3
    /\ MetricHigh(T_CPU, prev_stats)
    /\ MetricHigh(T_CPU, stats)
    /\ fired[T_CPU] = <<clock - 60000, clock>>
    /\ EventCount(notified, T_CPU) = 1
    /\ clock = 70000

\* C13: a failure to deliver an alert never surfaces to the caller of check:
\* check returns normally, still evaluates the remaining metrics of the
\* snapshot (each metric at its threshold and out of cooldown is handed to
\* notify and recorded), and the tick goes on to its next call, whether or
\* not osascript could be spawned.
C13_DeliveryFailureNeverSurfaces ==
    [][nchecks' = nchecks + 1 =>
        /\ ~check_panicked'
        /\ \A t \in Titles :
             /\ EventCount(notified', t) =
                   IF MetricHigh(t, stats') /\ OutOfCooldown(LastAlert(alert, t), clock')
                   THEN 1 ELSE 0
             /\ EventCount(notified', t) = 1 => LastAlert(alert', t) = <<clock'>>
        /\ spawned' = IF sink_up' THEN notified' ELSE <<>>
        /\ tick_pc' = tick_pc + 1
      ]_vars

\* the third cycle has polled after the check of the second cycle raised all
\* three alerts and osascript could not be spawned for any of them
C13_Witness ==
    /\ npolls = 3
    /\ nchecks = 2
    /\ ~sink_up
    /\ TitlesOf(notified) = <<T_CPU, T_MEM, T_TEMP>>
    /\ spawned = <<>>
    /\ alert.last_temp_alert # <<>>

(***************************************************************************)
(* Properties of the network collector and the poller                      *)
(***************************************************************************)
\* the cumulative counter of interface i as the OS reports it (0 when the
\* interface is not listed)
IfaceCounter(o, i, field) ==
    IF i \in DOMAIN o.networks THEN o.networks[i][field] ELSE 0

\* the counters summed over the two interfaces
OsTotal(o, field) == IfaceCounter(o, 1, field) + IfaceCounter(o, 2, field)

\* C6: received_per_sec and transmitted_per_sec are never negative; when the
\* summed counter of a cycle is lower than that of the previous cycle
\* (a counter reset) the rate of that cycle is exactly 0.
C6_RatesNeverNegative ==
    /\ stats.network.received_per_sec >= 0
    /\ stats.network.transmitted_per_sec >= 0
    /\ npolls >= 2 =>
         /\ stats.network.total_received_bytes < prev_stats.network.total_received_bytes
               => stats.network.received_per_sec = 0
         /\ stats.network.total_transmitted_bytes < prev_stats.network.total_transmitted_bytes
               => stats.network.transmitted_per_sec = 0

\* a poll saw both summed counters lower than the poll before it, which had
\* measured a positive rate
C6_Witness ==
    /\ npolls >= 2
    /\ stats.network.total_received_bytes < prev_stats.network.total_received_bytes
    /\ stats.network.total_transmitted_bytes < prev_stats.network.total_transmitted_bytes
    /\ prev_stats.network.received_per_sec > 0
    /\ stats.network.received_per_sec = 0

\* C9 (as claimed): the cumulative totals of successive snapshots never
\* decrease.
C9_TotalsNeverDecrease ==
    npolls >= 2 =>
        /\ stats.network.total_received_bytes >= prev_stats.network.total_received_bytes
        /\ stats.network.total_transmitted_bytes >= prev_stats.network.total_transmitted_bytes

\* C9 (amended): the totals of a snapshot are the OS counters summed over
\* the interfaces listed at that poll, and from one snapshot to the next
\* they do not decrease provided no interface was reset or removed between
\* the two polls.
C9_TotalsFollowOsCounters ==
    [][npolls' = npolls + 1 =>
        /\ stats'.network.total_received_bytes = OsTotal(os, "rx")
        /\ stats'.network.total_transmitted_bytes = OsTotal(os, "tx")
        /\ (npolls >= 1 /\ ~net_decreased) =>
              /\ stats'.network.total_received_bytes >= stats.network.total_received_bytes
              /\ stats'.network.total_transmitted_bytes >= stats.network.total_transmitted_bytes
      ]_vars

\* two successive snapshots with traffic on both interfaces and no reset in
\* between: both totals grew
C9_Witness ==
    /\ npolls >= 2
    /\ ~net_decreased
    /\ DOMAIN os.networks = Interfaces
    /\ stats.network.total_received_bytes = OsTotal(os, "rx")
    /\ stats.network.total_received_bytes > prev_stats.network.total_received_bytes
    /\ stats.network.total_transmitted_bytes > prev_stats.network.total_transmitted_bytes
    /\ prev_stats.network.total_received_bytes > 0

\* the rate the claim prescribes, truncated to whole bytes per second as the
\* u64 field stores it: the growth of the total since the preceding cycle,
\* never below 0, over the elapsed milliseconds, never below 100
RateOver(total, before, elapsed_ms) ==
    LET delta == IF total >= before THEN total - before ELSE 0
        ms    == IF elapsed_ms >= 100 THEN elapsed_ms ELSE 100
    IN  (delta * 1000) \div ms

\* C22: the network rate of each cycle is (current cumulative total - the
\* total recorded by the immediately preceding cycle, saturating at 0)
\* divided by max(elapsed seconds since the preceding poll, 0.1); every poll
\* stores the current totals as the new previous counters and its timestamp
\* as last poll, also after a counter decrease, so that a reset affects the
\* rate of the one cycle that observes it only.
C22_RateFromPrecedingCycle ==
    [][npolls' = npolls + 1 =>
        /\ monitor'.prev_net_rx = OsTotal(os, "rx")
        /\ monitor'.prev_net_tx = OsTotal(os, "tx")
        /\ monitor'.last_poll = stats'.timestamp
        /\ npolls >= 1 =>
              /\ stats'.network.received_per_sec =
                    RateOver(OsTotal(os, "rx"), stats.network.total_received_bytes,
                             stats'.timestamp - stats.timestamp)
              /\ stats'.network.transmitted_per_sec =
                    RateOver(OsTotal(os, "tx"), stats.network.total_transmitted_bytes,
                             stats'.timestamp - stats.timestamp)
      ]_vars

\* a poll taken under the 0.1 s floor observed a counter decrease after a
\* cycle with a positive rate: its rate is 0 and the monitor holds the
\* lowered totals and the timestamp of this poll
C22_Witness ==
    /\ npolls >= 2
    /\ stats.timestamp - prev_stats.timestamp < 100
    /\ prev_stats.network.received_per_sec > 0
    /\ stats.network.total_received_bytes < prev_stats.network.total_received_bytes
    /\ stats.network.received_per_sec = 0
    /\ stats.network.transmitted_per_sec = 0
    /\ monitor.prev_net_rx = stats.network.total_received_bytes
    /\ monitor.prev_net_tx = stats.network.total_transmitted_bytes
    /\ monitor.prev_net_rx < prev_stats.network.total_received_bytes
    /\ monitor.last_poll = stats.timestamp

(***************************************************************************)
(* Properties of the tick pipeline                                         *)
(***************************************************************************)
\* C8: sampling cycles never overlap and each is applied whole and in
\* order: a tick polls, then pushes that snapshot to the history exactly
\* once, then checks it in the alert manager exactly once, and only then
\* can the next tick begin; no snapshot is pushed without being checked or
\* checked without being pushed.
C8_CyclesAppliedWholeInOrder ==
    \* poll, then push, then check; the next poll only after the check
    /\ nchecks <= Len(pushlog)
    /\ Len(pushlog) <= npolls
    /\ npolls <= nchecks + 1
    \* the snapshot pushed and the snapshot checked are the one polled
    /\ (Len(pushlog) = npolls /\ npolls >= 1) => pushlog[npolls] = stats
    /\ (nchecks = npolls /\ npolls >= 1) => last_checked = stats
    \* outside a tick every snapshot polled has been pushed and checked
    /\ tick_pc = 0 => (Len(pushlog) = npolls /\ nchecks = npolls)

\* the event loop is waiting after three whole cycles, the last two with
\* different snapshots
C8_Witness ==
    /\ tick_pc = 0
    /\ phase = "loop"
    /\ npolls = 3
    /\ nchecks = 3
    /\ Len(pushlog) = 3
    /\ pushlog[2].cpu # pushlog[3].cpu
    /\ last_checked = pushlog[3]

\* C28: the event loop runs a sampling tick only when at least the loop's
\* current poll interval has elapsed since the previous tick, and it
\* re-reads the configured interval only right after a tick: an interval
\* changed through set_poll_interval takes effect from the next tick onward,
\* so one more tick is still scheduled under the old interval.
C28_IntervalReadAfterTick ==
    [][/\ (phase = "loop" /\ tick_pc = 0 /\ clock' # clock)
            => (tick_pc' = 1 <=> clock' - last_tick >= poll_interval)
       /\ (phase = "loop" /\ tick_pc = 0 /\ tick_pc' # 0)
            => /\ tick_pc' = 1
               /\ clock' - last_tick >= poll_interval
       /\ poll_interval' # poll_interval
            => /\ tick_pc = Len(TickCalls)
               /\ tick_pc' = 0
               /\ poll_interval' = config.poll_interval_secs * 1000
       /\ (tick_pc = Len(TickCalls) /\ tick_pc' = 0)
            => poll_interval' = config.poll_interval_secs * 1000
       /\ config' # config
            => /\ poll_interval' = poll_interval
               /\ last_tick' = last_tick
               /\ tick_pc' = tick_pc
      ]_vars

\* the interval was changed from 1 s to 2 s while the loop waited, and the
\* next tick has started 1 s after the previous one: the loop still holds
\* the old interval
C28_Witness ==
    /\ phase = "loop"
    /\ tick_pc = 1
    /\ config.poll_interval_secs = 2
    /\ poll_interval = 1000
    /\ clock - last_tick >= 1000
    /\ clock - last_tick < 2000
    /\ npolls >= 1

(***************************************************************************)
(* Properties of the disk collector                                        *)
(***************************************************************************)
\* volume i of the provider's list has a size and lies outside /System/Volumes
EligibleVolume(disks, i) ==
    /\ disks[i].total_space > 0
    /\ ~starts_with(disks[i].mount_point, S_system_volumes)

\* volume i is the first eligible volume of its device name
FirstEligibleOfName(disks, i) ==
    /\ EligibleVolume(disks, i)
    /\ \A j \in 1..(i - 1) :
          EligibleVolume(disks, j) => disks[j].name # disks[i].name

\* the volumes a snapshot lists, as the provider reported them
ListedVolumes(st) ==
    [i \in 1..Len(st.disks) |->
        Volume(st.disks[i].name, st.disks[i].mount_point,
               st.disks[i].total_bytes, st.disks[i].available_bytes)]

\* C18: the disk list of every snapshot has no entry with total_bytes = 0,
\* no entry mounted under /System/Volumes and no two entries with the same
\* device name; for each device name with an eligible volume, exactly the
\* first eligible volume in provider order is listed.
C18_DiskInclusionPolicy ==
    npolls >= 1 =>
        LET raw == polled_os.disks
        IN  /\ \A i \in 1..Len(stats.disks) :
                 /\ stats.disks[i].total_bytes # 0
                 /\ ~starts_with(stats.disks[i].mount_point, S_system_volumes)
            /\ \A i, j \in 1..Len(stats.disks) :
                 stats.disks[i].name = stats.disks[j].name => i = j
            /\ LET idx == {i \in 1..Len(raw) : FirstEligibleOfName(raw, i)}
               IN  /\ Len(stats.disks) = Cardinality(idx)
                   /\ \A i \in idx :
                        ListedVolumes(stats)[Cardinality({j \in idx : j <= i})] = raw[i]

\* a poll saw a volume without size, then a /System/Volumes volume of a
\* device, then a second volume of the same device: only the last is listed
C18_Witness ==
    /\ npolls >= 1
    /\ Len(polled_os.disks) = 3
    /\ polled_os.disks[1].total_space = 0
    /\ starts_with(polled_os.disks[2].mount_point, S_system_volumes)
    /\ polled_os.disks[2].total_space > 0
    /\ polled_os.disks[3].name = polled_os.disks[2].name
    /\ ListedVolumes(stats) = <<polled_os.disks[3]>>

\* C19: usage_percent is 0 when total_bytes is 0 and (total - available) /
\* total * 100 otherwise, the used amount saturating at 0 when available >
\* total, so that it lies in [0, 100] for every volume; nothing divides by
\* zero.
C19_DiskUsagePercent ==
    npolls >= 1 =>
        /\ \A i \in 1..Len(stats.disks) :
             LET e == stats.disks[i]
             IN  /\ e.total_bytes = 0 => e.usage_percent.num = 0
                 /\ (e.total_bytes # 0 /\ e.available_bytes <= e.total_bytes) =>
                       e.usage_percent.num * e.total_bytes
                          = (e.total_bytes - e.available_bytes) * 100 * e.usage_percent.den
                 /\ (e.total_bytes # 0 /\ e.available_bytes > e.total_bytes) =>
                       e.usage_percent.num = 0
                 /\ e.usage_percent.den > 0
                 /\ e.usage_percent.num >= 0
                 /\ e.usage_percent.num <= 100 * e.usage_percent.den
        \* the same for every volume of the provider, listed or not
        /\ \A i \in 1..Len(polled_os.disks) :
             LET e == disk_stats(polled_os.disks[i])
             IN  /\ e.total_bytes = 0 => e.usage_percent.num = 0
                 /\ e.usage_percent.den > 0
                 /\ e.usage_percent.num >= 0
                 /\ e.usage_percent.num <= 100 * e.usage_percent.den

\* a snapshot lists a volume three quarters used and a volume that reports
\* more available than total space (0 percent used); the provider also
\* listed a volume of size 0
C19_Witness ==
    /\ npolls >= 1
    /\ \E i \in 1..Len(stats.disks) :
          /\ stats.disks[i].available_bytes > stats.disks[i].total_bytes
          /\ stats.disks[i].usage_percent = Rat(0, 1)
    /\ \E i \in 1..Len(stats.disks) : stats.disks[i].usage_percent = Rat(75, 1)
    /\ \E i \in 1..Len(polled_os.disks) : polled_os.disks[i].total_space = 0

(***************************************************************************)
(* Properties of two polls in succession                                   *)
(***************************************************************************)
\* the step is a poll that follows another poll at once (within the 0.1 s
\* floor) while the OS reports what it reported to that poll
ImmediateRepoll ==
    /\ npolls >= 1
    /\ npolls' = npolls + 1
    /\ os = polled_os
    /\ stats'.timestamp - stats.timestamp <= 100

\* C20 (as claimed): two polls in immediate succession with an unchanged OS
\* state yield snapshots that agree on every field except timestamp; the
\* cumulative totals are equal and the rates of the second snapshot are 0.
C20_RepollAgreesExceptTimestamp ==
    [][ImmediateRepoll =>
        /\ [stats' EXCEPT !.timestamp = 0] = [stats EXCEPT !.timestamp = 0]
        /\ stats'.network.total_received_bytes = stats.network.total_received_bytes
        /\ stats'.network.total_transmitted_bytes = stats.network.total_transmitted_bytes
        /\ stats'.network.received_per_sec = 0
        /\ stats'.network.transmitted_per_sec = 0
      ]_vars

\* C20 (amended): the two snapshots agree on every field except timestamp
\* and the two rates; the cumulative totals are equal and the rates of the
\* second snapshot are 0, whatever the rates of the first.
C20_RepollAgreesExceptTimestampAndRates ==
    [][ImmediateRepoll =>
        /\ stats'.cpu = stats.cpu
        /\ stats'.memory = stats.memory
        /\ stats'.disks = stats.disks
        /\ stats'.temperature = stats.temperature
        /\ stats'.network.total_received_bytes = stats.network.total_received_bytes
        /\ stats'.network.total_transmitted_bytes = stats.network.total_transmitted_bytes
        /\ stats'.network.received_per_sec = 0
        /\ stats'.network.transmitted_per_sec = 0
      ]_vars

\* a poll measured traffic on both interfaces, and a second poll 40 ms later
\* reports the same totals and rates of 0
C20_Witness ==
    /\ npolls >= 2
    /\ os = polled_os
    /\ stats.timestamp - prev_stats.timestamp = 40
    /\ prev_stats.network.received_per_sec > 0
    /\ prev_stats.network.transmitted_per_sec > 0
    /\ stats.network.total_received_bytes = prev_stats.network.total_received_bytes
    /\ stats.network.total_received_bytes = OsTotal(os, "rx")
    /\ stats.network.total_received_bytes > 0
    /\ stats.network.received_per_sec = 0
    /\ stats.network.transmitted_per_sec = 0
    /\ stats.cpu = prev_stats.cpu
    /\ stats.disks = prev_stats.disks

(***************************************************************************)
(* Properties of the sensor classifier                                     *)
(***************************************************************************)
\* the component carries a temperature inside (0, 150]
ValidReading(c) ==
    /\ c.temperature # <<>>
    /\ c.temperature[1] > 0
    /\ c.temperature[1] <= 150

\* the category of a label: storage keywords first, then the die patterns,
\* then "cpu", then "gpu"; other PMU entries are skipped
CategoryOf(label) ==
    LET l == to_lowercase(label)
    IN  IF contains(l, S_nand) \/ contains(l, S_ssd) \/ contains(l, S_disk) THEN "SSD"
        ELSE IF starts_with(l, S_pmu_tdie) THEN "CPU"
        ELSE IF starts_with(l, S_pmu2_tdie) THEN "GPU"
        ELSE IF starts_with(l, S_pmu_tdev) THEN "CPU"
        ELSE IF contains(l, S_cpu) THEN "CPU"
        ELSE IF contains(l, S_gpu) THEN "GPU"
        ELSE IF contains(l, S_pmu) THEN "skip"
        ELSE "other"

\* the valid components of a category, in iteration order
Contributors(components, cat) ==
    SelectSeq(components, LAMBDA c : ValidReading(c) /\ CategoryOf(c.label) = cat)

\* their temperatures
Contributions(components, cat) ==
    LET cs == Contributors(components, cat)
    IN  [i \in 1..Len(cs) |-> cs[i].temperature[1]]

\* the readings of a snapshot that carry a label
ReadingsLabelled(st, label) ==
    SelectSeq(st.temperature.readings, LAMBDA r : r.label = label)

\* the readings of a snapshot under a raw (not canonical) label
OtherReadings(st) ==
    SelectSeq(st.temperature.readings, LAMBDA r : r.label \notin {L_CPU, L_GPU, L_SSD})

\* the rational v is the integer n
IsInt(v, n) == v.num = n * v.den

\* the rational v lies between the least and the greatest element of temps
WithinRange(v, temps) ==
    /\ \E i \in 1..Len(temps) : v.num >= temps[i] * v.den
    /\ \E i \in 1..Len(temps) : v.num <= temps[i] * v.den

\* C14: the classifier discards every raw reading whose temperature is
\* <= 0 or > 150, whatever its label: a category has an output reading only
\* if a valid reading belongs to it, a CPU or GPU average lies within the
\* valid readings of its category, the SSD value is that of a valid storage
\* reading, and the "other" readings are exactly the valid other readings;
\* a reading of exactly 150 is kept.
C14_InvalidReadingsDiscarded ==
    npolls >= 1 =>
        LET raw == polled_os.components
        IN  /\ \A cat \in {L_CPU, L_GPU, L_SSD} :
                 LET name == IF cat = L_CPU THEN "CPU" ELSE IF cat = L_GPU THEN "GPU" ELSE "SSD"
                     out  == ReadingsLabelled(stats, cat)
                     in   == Contributions(raw, name)
                 IN  /\ (out # <<>>) <=> (in # <<>>)
                     /\ \A i \in 1..Len(out) : WithinRange(out[i].temp_c, in)
            /\ LET out == OtherReadings(stats)
                   in  == Contributors(raw, "other")
               IN  /\ Len(out) = Len(in)
                   /\ \A i \in 1..Len(in) :
                        /\ out[i].label = in[i].label
                        /\ IsInt(out[i].temp_c, in[i].temperature[1])
            /\ \A i \in 1..Len(raw) :
                 (raw[i].temperature = <<150>> /\ CategoryOf(raw[i].label) # "skip")
                    => stats.temperature.readings # <<>>

\* a poll saw a die sensor at 200 degrees and a CPU sensor at exactly 150:
\* the only reading is CPU = 150
C14_Witness ==
    /\ npolls >= 1
    /\ polled_os.components = <<Sensor(N_PMU_tdie1, 200), Sensor(N_CPU_Die, 150)>>
    /\ stats.temperature.readings = <<[label |-> L_CPU, temp_c |-> Rat(150, 1)]>>

\* C15: for the CPU and the GPU category the classifier emits exactly one
\* reading per non-empty category, labelled "CPU" resp. "GPU", whose value
\* is the arithmetic mean of the valid raw readings of that category in
\* this cycle, and no reading for an empty category.
C15_OneMeanPerDieCategory ==
    npolls >= 1 =>
        \A cat \in {L_CPU, L_GPU} :
            LET name == IF cat = L_CPU THEN "CPU" ELSE "GPU"
                out  == ReadingsLabelled(stats, cat)
                in   == Contributions(polled_os.components, name)
            IN  /\ Len(out) = IF in = <<>> THEN 0 ELSE 1
                /\ in # <<>> =>
                      out[1].temp_c.num * Len(in) = SumSeq(in) * out[1].temp_c.den

\* PMU Tdie1 = 40 and PMU Tdie2 = 44 give the single reading CPU = 42
C15_Witness ==
    /\ npolls >= 1
    /\ polled_os.components = <<Sensor(N_PMU_tdie1, 40), Sensor(N_PMU_tdie2, 44)>>
    /\ stats.temperature.readings = <<[label |-> L_CPU, temp_c |-> Rat(42, 1)]>>

\* C16: when several valid readings classify as storage, the single "SSD"
\* reading is the value of the last of them in iteration order, not an
\* average and not the first.
C16_LastStorageReadingWins ==
    npolls >= 1 =>
        LET out == ReadingsLabelled(stats, L_SSD)
            in  == Contributions(polled_os.components, "SSD")
        IN  /\ Len(out) = IF in = <<>> THEN 0 ELSE 1
            /\ in # <<>> => IsInt(out[1].temp_c, in[Len(in)])

\* NAND Temp = 38 followed by SSD Sensor = 41 gives SSD = 41
C16_Witness ==
    /\ npolls >= 1
    /\ polled_os.components = <<Sensor(N_NAND_Temp, 38), Sensor(N_SSD_Sensor, 41)>>
    /\ stats.temperature.readings = <<[label |-> L_SSD, temp_c |-> Rat(41, 1)]>>

(***************************************************************************)
(* Properties of a cycle without sensors                                   *)
(***************************************************************************)
\* no component survives validation and classification
NoSurvivor(components) ==
    \A i \in 1..Len(components) :
        ~ValidReading(components[i]) \/ CategoryOf(components[i].label) = "skip"

\* C17: "no sensors" is a legitimate state through the whole pipeline: when
\* no raw reading survives, poll returns a snapshot with an empty reading
\* set and every other field populated, push of that snapshot creates and
\* extends no temperature series while it extends the four fixed series, and
\* check of that snapshot emits no temperature alert.
C17_NoSensorsThroughPipeline ==
    [][/\ (npolls' = npolls + 1 /\ NoSurvivor(os.components)) =>
            /\ stats'.temperature.readings = <<>>
            /\ stats'.cpu.global_usage = os.global_cpu
            /\ stats'.cpu.core_count = Len(os.cpus)
            /\ stats'.memory.total_bytes = os.mem_total
            /\ stats'.memory.used_bytes = os.mem_used
            /\ Len(stats'.disks) >= 1
            /\ stats'.network.total_received_bytes = OsTotal(os, "rx")
            /\ stats'.timestamp = clock
       /\ (Len(pushlog') = Len(pushlog) + 1 /\ stats.temperature.readings = <<>>) =>
            /\ history'.temps = history.temps
            /\ history'.cpu_usage = Append(history.cpu_usage, stats.cpu.global_usage)
            /\ history'.mem_usage = Append(history.mem_usage, stats.memory.usage_percent)
            /\ Len(history'.net_down) = Len(history.net_down) + 1
            /\ Len(history'.net_up) = Len(history.net_up) + 1
       /\ (nchecks' = nchecks + 1 /\ stats.temperature.readings = <<>>) =>
            /\ ~check_panicked'
            /\ EventCount(notified', T_TEMP) = 0
            /\ alert'.last_temp_alert = alert.last_temp_alert
      ]_vars

\* the third cycle ran on a machine whose three sensors all yield nothing,
\* after a cycle with a die sensor at 40 degrees: the CPU series keeps its
\* one point, the fixed series have three, and the check raised the CPU
\* alert and no temperature alert
C17_Witness ==
    /\ tick_pc = 0
    /\ npolls = 3
    /\ Len(polled_os.components) = 3
    /\ NoSurvivor(polled_os.components)
    /\ stats.temperature.readings = <<>>
    /\ pushlog[3] = stats
    /\ last_checked = stats
    /\ DOMAIN history.temps = {L_CPU}
    /\ Len(history.temps[L_CPU]) = 1
    /\ Len(history.cpu_usage) = 3
    /\ TitlesOf(notified) = <<T_CPU>>
    /\ alert.last_temp_alert = <<>>

(***************************************************************************)
(* Properties of the classification precedence and of the output order     *)
(***************************************************************************)
\* which of the eight rules the lower-cased label l satisfies, in the order
\* the rules are tried
RulesMatched(l) ==
    <<contains(l, S_nand) \/ contains(l, S_ssd) \/ contains(l, S_disk),
      starts_with(l, S_pmu_tdie),
      starts_with(l, S_pmu2_tdie),
      starts_with(l, S_pmu_tdev),
      contains(l, S_cpu),
      contains(l, S_gpu),
      contains(l, S_pmu),
      TRUE>>

\* the earliest rule a label satisfies
FirstRule(label) ==
    LET m == RulesMatched(to_lowercase(label))
    IN  CHOOSE i \in 1..8 : m[i] /\ \A j \in 1..(i - 1) : ~m[j]

\* what each rule does with a reading
RuleCategory == <<"SSD", "CPU", "GPU", "CPU", "CPU", "GPU", "dropped", "other">>

\* the earliest rule of each label a sensor of SpecClassifier carries
FirstRuleOf == [l \in {c.label : c \in ClassifierSensors} |-> FirstRule(l)]

\* the valid components whose earliest rule leads to a category
ClassifiedAs(components, cat) ==
    SelectSeq(components,
              LAMBDA c : ValidReading(c) /\ RuleCategory[FirstRuleOf[c.label]] = cat)

\* the rational v is the mean of the temperatures of the components cs
IsMeanOf(v, cs) ==
    v.num * Len(cs) = SumSeq([i \in 1..Len(cs) |-> cs[i].temperature[1]]) * v.den

\* C23: sensor labels are classified case-insensitively by the first
\* matching rule in the fixed precedence storage keywords, "pmu tdie",
\* "pmu2 tdie", "pmu tdev", "cpu", "gpu", then other (dropped when the label
\* contains "pmu"); a label matching several rules counts only in the
\* category of the earliest one.
C23_FirstMatchingRuleDecides ==
    npolls >= 1 =>
      LET cs  == polled_os.components
          cpu == ReadingsLabelled(stats, L_CPU)
          gpu == ReadingsLabelled(stats, L_GPU)
          ssd == ReadingsLabelled(stats, L_SSD)
          oth == ClassifiedAs(cs, "other")
      IN  /\ cpu # <<>> <=> ClassifiedAs(cs, "CPU") # <<>>
          /\ gpu # <<>> <=> ClassifiedAs(cs, "GPU") # <<>>
          /\ ssd # <<>> <=> ClassifiedAs(cs, "SSD") # <<>>
          /\ \A i \in 1..Len(cpu) : IsMeanOf(cpu[i].temp_c, ClassifiedAs(cs, "CPU"))
          /\ \A i \in 1..Len(gpu) : IsMeanOf(gpu[i].temp_c, ClassifiedAs(cs, "GPU"))
          /\ \A i \in 1..Len(ssd) :
                LET st == ClassifiedAs(cs, "SSD")
                IN  IsInt(ssd[i].temp_c, st[Len(st)].temperature[1])
          /\ OtherReadings(stats) =
                [i \in 1..Len(oth) |->
                    [label |-> oth[i].label, temp_c |-> Rat(oth[i].temperature[1], 1)]]

\* the poll of a machine listing a sensor labelled with "CPU" and "SSD",
\* a "PMU2 tdie" sensor whose label also holds "CPU", a PMU entry outside
\* the die patterns and a battery sensor: the first is the storage reading,
\* the second the GPU reading, the third is dropped, and there is no CPU
\* reading
C23_Witness ==
    /\ npolls = 1
    /\ polled_os.components = <<Sensor(N_CPU_SSD, 45), Sensor(N_PMU2_tdie_CPU, 60),
                                Sensor(N_PMU_tcal, 51), Sensor(N_Battery, 30)>>
    /\ stats.temperature.readings = <<[label |-> L_GPU, temp_c |-> Rat(60, 1)],
                                      [label |-> L_SSD, temp_c |-> Rat(45, 1)],
                                      [label |-> N_Battery, temp_c |-> Rat(30, 1)]>>

\* the place of a label in the output: CPU, GPU, SSD, then the others
OutputRank(label) ==
    IF label = L_CPU THEN 1
    ELSE IF label = L_GPU THEN 2
    ELSE IF label = L_SSD THEN 3
    ELSE 4

\* C24: the output of the classifier is ordered CPU reading (if any), GPU
\* reading (if any), SSD reading (if any), then the other readings in the
\* order their raw sensors were encountered; each of the labels "CPU", "GPU"
\* and "SSD" occurs at most once.
C24_OutputOrder ==
    npolls >= 1 =>
      LET rs  == stats.temperature.readings
          cs  == polled_os.components
          oth == OtherReadings(stats)
          raw == SelectSeq(cs, LAMBDA c : \E i \in 1..Len(oth) : oth[i].label = c.label)
      IN  /\ \A i, j \in 1..Len(rs) :
                i < j => OutputRank(rs[i].label) <= OutputRank(rs[j].label)
          /\ \A l \in {L_CPU, L_GPU, L_SSD} : Len(ReadingsLabelled(stats, l)) <= 1
          /\ [i \in 1..Len(oth) |-> oth[i].label] = [i \in 1..Len(raw) |-> raw[i].label]

\* sensors listed in the order other, other, storage, CPU die come out as
\* CPU, SSD and then the two others in the order they were listed
C24_Witness ==
    /\ npolls = 1
    /\ polled_os.components = <<Sensor(N_Battery, 30), Sensor(N_Airflow, 28),
                                Sensor(N_CPU_SSD, 45), Sensor(N_PMU_tdie_GPU, 50)>>
    /\ stats.temperature.readings = <<[label |-> L_CPU, temp_c |-> Rat(50, 1)],
                                      [label |-> L_SSD, temp_c |-> Rat(45, 1)],
                                      [label |-> N_Battery, temp_c |-> Rat(30, 1)],
                                      [label |-> N_Airflow, temp_c |-> Rat(28, 1)]>>

(***************************************************************************)
(* Properties of the temperature lookup                                    *)
(***************************************************************************)
\* the label contains the fragment, letter case set aside
MatchesFragment(label, frag) ==
    \E o \in 0..(Len(label) - Len(frag)) :
        \A k \in 1..Len(frag) : lower_char(label[o + k]) = lower_char(frag[k])

\* the positions of the readings whose label matches the fragment
MatchingReadings(readings, frag) ==
    {i \in 1..Len(readings) : MatchesFragment(readings[i].label, frag)}

\* C21: the lookup by label fragment is a case-insensitive substring match
\* that returns the temperature of the first reading, in sequence order,
\* whose label contains the fragment, and none when no label contains it
\* (the tray then shows "--C").
C21_FirstCaseInsensitiveMatch ==
    [][config' = config =>
        LET rs == stats'.temperature.readings
            m  == MatchingReadings(rs, config.menubar_temp_component)
        IN  IF m = {}
            THEN /\ temp_title'.text = <<"--C">>
                 /\ temp_title'.level = Rat(0, 1)
            ELSE LET first == CHOOSE i \in m : \A j \in m : i <= j
                 IN  /\ temp_title'.level = rs[first].temp_c
                     /\ temp_title'.text = <<fmt0(rs[first].temp_c), "C">>
      ]_vars

\* the configuration asks for "pU" and the snapshot shown holds the readings
\* CPU, GPU, SSD and Battery in this order: CPU and GPU both match, and the
\* title carries the temperature of CPU
C21_Witness ==
    /\ config.menubar_temp_component = <<"p","U">>
    /\ Len(stats.temperature.readings) = 4
    /\ stats.temperature.readings[1] = [label |-> L_CPU, temp_c |-> Rat(40, 1)]
    /\ stats.temperature.readings[2] = [label |-> L_GPU, temp_c |-> Rat(55, 1)]
    /\ temp_title.level = Rat(40, 1)
    /\ temp_title.text = <<40, "C">>

(***************************************************************************)
(* Properties of the pending menu action                                   *)
(***************************************************************************)
\* the callback for this sender finds an action under the sender's tag
Registered(actions, sender) == sender # <<>> /\ sender[1] \in DOMAIN actions

\* the number of callbacks so far that stored an action
StoredCount(actions, senders) ==
    Cardinality({i \in 1..Len(senders) : Registered(actions, senders[i])})

\* C29: the pending menu-action slot holds at most one action:
\* take_pending_event returns the stored action and empties the slot, so
\* each stored action is handled at most once; if two menu callbacks fire
\* before the event loop takes the slot, only the later action is delivered
\* and the earlier one is lost; a callback whose tag is not registered
\* leaves the slot unchanged.
C29_PendingSlotHoldsLatestAction ==
    [][/\ Len(triggered') = Len(triggered) + 1 =>
            LET sender == triggered'[Len(triggered')]
            IN  /\ PENDING_EVENT' = IF Registered(MENU_ACTIONS, sender)
                                    THEN <<MENU_ACTIONS[sender[1]]>>
                                    ELSE PENDING_EVENT
                /\ handled' = handled
       /\ Len(handled') = Len(handled) + 1 =>
            /\ PENDING_EVENT # <<>>
            /\ handled' = Append(handled, PENDING_EVENT[1])
            /\ PENDING_EVENT' = <<>>
       /\ Len(PENDING_EVENT') <= 1
       /\ Len(handled') + Len(PENDING_EVENT') <= StoredCount(MENU_ACTIONS', triggered')
      ]_vars

\* the items of the 2 s interval and of the GPU temperature were clicked
\* before the event loop ran, then an item without a registered tag: the
\* loop handled the temperature choice only, the interval is still 1 s and
\* the slot is empty
C29_Witness ==
    /\ triggered = << <<102>>, <<402>>, <<0>> >>
    /\ handled = <<ActionId("temp_", L_GPU)>>
    /\ PENDING_EVENT = <<>>
    /\ config.menubar_temp_component = L_GPU
    /\ config.poll_interval_secs = 1

(***************************************************************************)
(* Properties of the runner rotation                                       *)
(***************************************************************************)
\* C30: starting from a configuration whose runner rotation list is
\* non-empty, the list stays non-empty after any sequence of
\* toggle_runner_in_rotation, select_runner_category and select_all_runners
\* operations.
C30_RotationStaysNonEmpty ==
    config.runner_rotation_ids # <<>>

\* the list stays non-empty as long as the runner menu offers a runner
RotationNonEmptyWhenRunnersOffered ==
    menu_options(runner) # <<>> => config.runner_rotation_ids # <<>>

\* toggle_runner_in_rotation refuses to remove the last remaining runner,
\* and deselecting a category that would empty the list restores the
\* default runner
LastRunnerKept ==
    [][/\ Len(config.runner_rotation_ids) = 1
            => \A id \in RunnerIdInputs :
                  toggle_runner_in_rotation(config, runner, id).config.runner_rotation_ids # <<>>
       /\ \A c \in DOMAIN RunnerCategories :
             Elems(config.runner_rotation_ids) \subseteq Elems(RunnerCategories[c])
             => select_runner_category(config, runner, c).config.runner_rotation_ids # <<>>
      ]_vars

\* the runner menu offers nothing and "All" has emptied the rotation list
\* of the configuration
RotationEmptied ==
    /\ menu_options(runner) = <<>>
    /\ config.runner_rotation_ids = <<>>
    /\ runner.rotation_ids = <<R_fallback>>
====
